---- MODULE Spec2Model ----
(***************************************************************************)
(* SimpleLang (AtomicCompiler): scanner, parser, type/value model and      *)
(* tree-walking evaluator, modelled as the pipeline that cmd/compiler      *)
(* drives: NewLexer(source).Tokenize, NewParser(tokens).Parse,             *)
(* NewInterpreter().Interpret(ast).                                        *)
(*                                                                         *)
(* Go strings are TLA+ strings; the source text, which the scanner reads   *)
(* byte by byte, is the sequence of its one-character strings.             *)
(***************************************************************************)
EXTENDS Integers, Sequences, FiniteSets, TLC

VARIABLES lex, tokens, ast, environment, stdout, err, pc,
          typeName, declType, actual, compatible, second, parser

\* the pipeline's variables, and those of the type checks of TestTypeSystem
typeVars == <<typeName, declType, actual, compatible>>

\* second is what a second run of the evaluator on the same program gave,
\* parser the Parser while Parse is followed iteration by iteration
vars ==
    <<lex, tokens, ast, environment, stdout, err, pc, typeVars, second,
      parser>>

(***************************************************************************)
(* Bounds                                                                  *)
(***************************************************************************)
\* longest source drawn character by character from Alphabet
MaxLen == 3

\* largest bound of the counted loops that are run
MaxLoop == 3

\* largest number among the values whose type is checked
MaxNumber == 9

\* largest dividend of the divisions that are run
MaxDividend == 3

\* longest expression drawn token by token from ExpressionWords
MaxTokens == 5

\* most opening parentheses of an expression drawn token by token
MaxParentheses == 2

\* most statements of a program drawn statement by statement
MaxStatements == 2

\* most arguments of the calls that are run
MaxArguments == 3

(***************************************************************************)
(* Characters                                                              *)
(***************************************************************************)
\* rune 0, what currentChar returns past the end of the input
NUL == ""

Digits == {"0", "1", "2", "3", "4", "5", "6", "7", "8", "9"}

Letters ==
    {"a", "b", "c", "d", "e", "f", "g", "h", "i", "j", "k", "l", "m",
     "n", "o", "p", "q", "r", "s", "t", "u", "v", "w", "x", "y", "z",
     "A", "B", "C", "D", "E", "F", "G", "H", "I", "J", "K", "L", "M",
     "N", "O", "P", "Q", "R", "S", "T", "U", "V", "W", "X", "Y", "Z"}

Spaces == {" ", "\t", "\n", "\r", "\f"}

IsDigit(c) == c \in Digits

IsLetter(c) == c \in Letters

IsSpace(c) == c \in Spaces

RECURSIVE Join(_)
\* the Go string made of the characters cs
Join(cs) == IF cs = <<>> THEN "" ELSE Head(cs) \o Join(Tail(cs))

\* input[start:end], 0-based and end-exclusive as in Go
Slice(input, start, end) == SubSeq(input, start + 1, end)

(***************************************************************************)
(* Scanner                                                                 *)
(***************************************************************************)
NoError == [kind |-> "nil"]

\* the dynamic type and payload of Token.Literal (interface{}); chars is the
\* character sequence of the string s
NilLiteral == [dyn |-> "nil"]

StringLiteral(cs) == [dyn |-> "string", s |-> Join(cs), chars |-> cs]

BoolLiteral(b) == [dyn |-> "bool", b |-> b]

Token(type, value, line, column, literal) ==
    [Type |-> type, Value |-> value, Line |-> line, Column |-> column,
     Literal |-> literal]

NewLexer(input) ==
    [input |-> input, position |-> 0, line |-> 1, column |-> 1,
     tokens |-> <<>>]

currentChar(l) ==
    IF l.position >= Len(l.input) THEN NUL ELSE l.input[l.position + 1]

advance(l) == [l EXCEPT !.position = @ + 1, !.column = @ + 1]

RECURSIVE skipWhitespace(_)
skipWhitespace(l) ==
    IF l.position < Len(l.input) /\ IsSpace(currentChar(l))
    THEN skipWhitespace(advance(
             IF currentChar(l) = "\n"
             THEN [l EXCEPT !.line = @ + 1, !.column = 1]
             ELSE [l EXCEPT !.column = @ + 1]))
    ELSE l

getKeywordType(value) ==
    CASE value = "number" -> "TokenNumberKeyword"
      [] value = "text" -> "TokenTextKeyword"
      [] value = "boolean" -> "TokenBooleanKeyword"
      [] value = "function" -> "TokenFunction"
      [] value = "if" -> "TokenIf"
      [] value = "then" -> "TokenThen"
      [] value = "else" -> "TokenElse"
      [] value = "end" -> "TokenEnd"
      [] value = "loop" -> "TokenLoop"
      [] value = "from" -> "TokenFrom"
      [] value = "to" -> "TokenTo"
      [] value = "print" -> "TokenPrint"
      [] OTHER -> "TokenIdentifier"

RECURSIVE numberRun(_)
\* the loop of readNumber
numberRun(l) ==
    IF l.position < Len(l.input)
       /\ (IsDigit(currentChar(l)) \/ currentChar(l) = ".")
    THEN numberRun(advance(l))
    ELSE l

readNumber(l) ==
    LET start == l.position
        startColumn == l.column
        l1 == numberRun(l)
        value == Slice(l1.input, start, l1.position)
    IN  [l |-> l1,
         tok |-> Token("TokenNumber", Join(value), l1.line, startColumn,
                       StringLiteral(value))]

RECURSIVE textRun(_)
\* the loop of readText
textRun(l) ==
    IF l.position < Len(l.input) /\ currentChar(l) # "\""
    THEN textRun(advance(
             IF currentChar(l) = "\n"
             THEN [l EXCEPT !.line = @ + 1, !.column = 1]
             ELSE l))
    ELSE l

readText(l) ==
    LET startColumn == l.column
        l0 == advance(l)
        start == l0.position
        l1 == textRun(l0)
        value == Slice(l1.input, start, l1.position)
    IN  IF l1.position >= Len(l1.input)
        THEN [l |-> l1,
              tok |-> Token("TokenError", "unterminated string", l1.line,
                            startColumn, NilLiteral)]
        ELSE [l |-> advance(l1),
              tok |-> Token("TokenText", Join(value), l1.line, startColumn,
                            StringLiteral(value))]

RECURSIVE identifierRun(_)
\* the loop of readIdentifierOrKeyword
identifierRun(l) ==
    IF l.position < Len(l.input)
       /\ (IsLetter(currentChar(l)) \/ IsDigit(currentChar(l))
           \/ currentChar(l) = "_")
    THEN identifierRun(advance(l))
    ELSE l

readIdentifierOrKeyword(l) ==
    LET start == l.position
        startColumn == l.column
        l1 == identifierRun(l)
        value == Slice(l1.input, start, l1.position)
        tokenType == getKeywordType(Join(value))
    IN  IF tokenType = "TokenBoolean"
           /\ (Join(value) = "true" \/ Join(value) = "false")
        THEN [l |-> l1,
              tok |-> Token("TokenBoolean", Join(value), l1.line,
                            startColumn, BoolLiteral(Join(value) = "true"))]
        ELSE [l |-> l1,
              tok |-> Token(tokenType, Join(value), l1.line, startColumn,
                            StringLiteral(value))]

\* a one-character token: advance, then the column is l.column - 1
single(l, type, value) ==
    LET l1 == advance(l)
    IN  [l |-> l1,
         tok |-> Token(type, value, l1.line, l1.column - 1, NilLiteral)]

\* '=', '<', '>', '!': one character of lookahead for '='
lookahead(l, type, value, type2, value2) ==
    LET l1 == advance(l)
    IN  IF currentChar(l1) = "="
        THEN LET l2 == advance(l1)
             IN  [l |-> l2,
                  tok |-> Token(type2, value2, l2.line, l2.column - 2,
                                NilLiteral)]
        ELSE [l |-> l1,
              tok |-> Token(type, value, l1.line, l1.column - 1, NilLiteral)]

\* nextToken with '{', '}', ';' and ':' falling into the default case
nextToken_NoBraces(l) ==
    LET char == currentChar(l)
    IN  CASE IsDigit(char) -> readNumber(l)
          [] char = "\"" -> readText(l)
          [] IsLetter(char) -> readIdentifierOrKeyword(l)
          [] char = "+" -> single(l, "TokenPlus", "+")
          [] char = "-" -> single(l, "TokenMinus", "-")
          [] char = "*" -> single(l, "TokenMultiply", "*")
          [] char = "/" -> single(l, "TokenDivide", "/")
          [] char = "=" ->
                lookahead(l, "TokenAssign", "=", "TokenEqual", "==")
          [] char = "<" ->
                lookahead(l, "TokenLessThan", "<", "TokenLessEqual", "<=")
          [] char = ">" ->
                lookahead(l, "TokenGreaterThan", ">", "TokenGreaterEqual",
                          ">=")
          [] char = "!" ->
                lookahead(l, "TokenNot", "!", "TokenNotEqual", "!=")
          [] char = "(" -> single(l, "TokenLeftParen", "(")
          [] char = ")" -> single(l, "TokenRightParen", ")")
          [] char = "," -> single(l, "TokenComma", ",")
          [] OTHER ->
                [l |-> l,
                 tok |-> Token("TokenError",
                               "unexpected character: " \o char,
                               l.line, l.column, NilLiteral)]

nextToken(l) ==
    LET char == currentChar(l)
    IN  CASE IsDigit(char) -> readNumber(l)
          [] char = "\"" -> readText(l)
          [] IsLetter(char) -> readIdentifierOrKeyword(l)
          [] char = "+" -> single(l, "TokenPlus", "+")
          [] char = "-" -> single(l, "TokenMinus", "-")
          [] char = "*" -> single(l, "TokenMultiply", "*")
          [] char = "/" -> single(l, "TokenDivide", "/")
          [] char = "=" ->
                lookahead(l, "TokenAssign", "=", "TokenEqual", "==")
          [] char = "<" ->
                lookahead(l, "TokenLessThan", "<", "TokenLessEqual", "<=")
          [] char = ">" ->
                lookahead(l, "TokenGreaterThan", ">", "TokenGreaterEqual",
                          ">=")
          [] char = "!" ->
                lookahead(l, "TokenNot", "!", "TokenNotEqual", "!=")
          [] char = "(" -> single(l, "TokenLeftParen", "(")
          [] char = ")" -> single(l, "TokenRightParen", ")")
          [] char = "{" -> single(l, "TokenLeftBrace", "{")
          [] char = "}" -> single(l, "TokenRightBrace", "}")
          [] char = "," -> single(l, "TokenComma", ",")
          [] char = ";" -> single(l, "TokenSemicolon", ";")
          [] char = ":" -> single(l, "TokenColon", ":")
          [] OTHER ->
                [l |-> l,
                 tok |-> Token("TokenError",
                               "unexpected character: " \o char,
                               l.line, l.column, NilLiteral)]

\* one iteration of the for loop of Tokenize: the Lexer after it and the
\* error Tokenize returns from it, if any
tokenizeIteration(l) ==
    LET l1 == skipWhitespace(l)
    IN  IF l1.position >= Len(l1.input)
        THEN [l |-> l1, err |-> NoError]
        ELSE LET r == nextToken(l1)
             IN  IF r.tok.Type = "TokenError"
                 THEN [l |-> r.l,
                       err |-> [kind |-> "lexical error",
                                line |-> r.tok.Line,
                                column |-> r.tok.Column,
                                msg |-> r.tok.Value]]
                 ELSE [l |-> [r.l EXCEPT !.tokens = Append(@, r.tok)],
                       err |-> NoError]

\* tokenizeReturn that forgets the end-of-input token
tokenizeReturn_NoEOF(l) == l

\* the end of Tokenize: the end-of-input token is appended to l.tokens
tokenizeReturn(l) ==
    [l EXCEPT !.tokens =
        Append(@, Token("TokenEOF", "", l.line, l.column, NilLiteral))]

RECURSIVE Tokenize(_)
\* l.Tokenize() as one call: the lexer after it, the token list returned
\* (nil with an error) and the error
Tokenize(l) ==
    LET iterate(r) ==
            IF r.err.kind # "nil"
            THEN [l |-> r.l, tokens |-> <<>>, err |-> r.err]
            ELSE Tokenize(r.l)
        return(l2) == [l |-> l2, tokens |-> l2.tokens, err |-> NoError]
    IN  IF l.position < Len(l.input)
        THEN iterate(tokenizeIteration(l))
        ELSE return(tokenizeReturn(l))

(***************************************************************************)
(* Types and values                                                        *)
(***************************************************************************)
NumberType == "number"

TextType == "text"

BooleanType == "boolean"

VoidType == "void"

\* IsCompatibleWith with Void compatible on either side
IsCompatibleWith_Symmetric(declared, other) ==
    declared = other \/ declared = VoidType \/ other = VoidType

\* declared.IsCompatibleWith(other)
IsCompatibleWith(declared, other) ==
    CASE declared = NumberType -> other = NumberType
      [] declared = TextType -> other = TextType
      [] declared = BooleanType -> other = BooleanType
      [] declared = VoidType -> TRUE

TypeFromString(typeStr) ==
    IF typeStr \in {"number", "text", "boolean", "void"}
    THEN [type |-> typeStr, err |-> NoError]
    ELSE [type |-> "", err |-> [kind |-> "parse error",
                                msg |-> "unknown type", got |-> typeStr]]

(***************************************************************************)
(* Parser                                                                  *)
(***************************************************************************)
Literal(value, type) == [node |-> "Literal", Value |-> value, Type |-> type]

Identifier(name) == [node |-> "Identifier", Name |-> name]

BinaryExpression(left, operator, right) ==
    [node |-> "BinaryExpression", Left |-> left, Operator |-> operator,
     Right |-> right]

UnaryExpression(operator, operand) ==
    [node |-> "UnaryExpression", Operator |-> operator, Operand |-> operand]

FunctionCall(name, arguments) ==
    [node |-> "FunctionCall", Name |-> name, Arguments |-> arguments]

VariableDeclaration(type, name, value) ==
    [node |-> "VariableDeclaration", Type |-> type, Name |-> name,
     Value |-> value]

Assignment(name, value) ==
    [node |-> "Assignment", Name |-> name, Value |-> value]

IfStatement(condition, thenBody, elseBody) ==
    [node |-> "IfStatement", Condition |-> condition, ThenBody |-> thenBody,
     ElseBody |-> elseBody]

LoopStatement(variable, from, to, body) ==
    [node |-> "LoopStatement", Variable |-> variable, From |-> from,
     To |-> to, Body |-> body]

FunctionDeclaration(name, parameters, body) ==
    [node |-> "FunctionDeclaration", Name |-> name,
     Parameters |-> parameters, ReturnType |-> VoidType, Body |-> body]

PrintStatement(value) == [node |-> "PrintStatement", Value |-> value]

NewParser(toks) == [tokens |-> toks, pos |-> 0]

current(p) ==
    IF p.pos >= Len(p.tokens)
    THEN Token("TokenEOF", "", 0, 0, NilLiteral)
    ELSE p.tokens[p.pos + 1]

peek(p) ==
    IF p.pos + 1 >= Len(p.tokens)
    THEN Token("TokenEOF", "", 0, 0, NilLiteral)
    ELSE p.tokens[p.pos + 2]

Parser_advance(p) == [p EXCEPT !.pos = @ + 1]

\* what a parse routine returns: the parser after it, the node, the error
Parsed(p, node) == [p |-> p, node |-> node, err |-> NoError]

ParseError(p, msg, got) ==
    [p |-> p, node |-> <<>>,
     err |-> [kind |-> "parse error", msg |-> msg, got |-> got]]

TypeKeywords ==
    {"TokenNumberKeyword", "TokenTextKeyword", "TokenBooleanKeyword"}

RECURSIVE parseStatement(_), parseBody(_, _, _), parseIfStatement(_)
RECURSIVE parseBodyToEnd(_)
RECURSIVE parseLoopStatement(_), parseFunctionDeclaration(_)
RECURSIVE parseExpression(_), parseBinary(_, _), binaryLoop(_, _)
RECURSIVE parseOperand(_, _), parseLogicalOr(_), parseLogicalAnd(_)
RECURSIVE parseEquality(_), parseComparison(_), parseTerm(_)
RECURSIVE parseFactor(_), parseUnary(_), parsePrimary(_)
RECURSIVE parseFunctionCall(_, _), argumentsLoop(_, _)

parseExpression(p) == parseLogicalOr(p)

\* parseLogicalOr, parseLogicalAnd, parseEquality, parseComparison,
\* parseTerm and parseFactor are one function up to the operator tokens
\* their loop accepts and the function they call for an operand:
\* parseBinary is that function for the level-th of them
parseBinary(p, level) == binaryLoop(parseOperand(p, level), level)

\* the operator tokens each of the six accepts
BinaryOperators ==
    <<{"TokenOr"},
      {"TokenAnd"},
      {"TokenEqual", "TokenNotEqual"},
      {"TokenLessThan", "TokenLessEqual", "TokenGreaterThan",
       "TokenGreaterEqual"},
      {"TokenPlus", "TokenMinus"},
      {"TokenMultiply", "TokenDivide"}>>

\* left = &ast.BinaryExpression{left, operator, right}, or the error of
\* parsing right
combine(left, operator, right) ==
    IF right.err.kind # "nil" THEN right
    ELSE Parsed(right.p, BinaryExpression(left, operator, right.node))

\* binaryLoop that parses all that follows the operator as its right operand
binaryLoop_RightAssociative(left, level) ==
    IF left.err.kind # "nil" THEN left
    ELSE IF current(left.p).Type \in BinaryOperators[level]
    THEN combine(left.node, current(left.p).Value,
                 parseBinary(Parser_advance(left.p), level))
    ELSE left

\* the for loop of each of the six, left being what was parsed so far
binaryLoop(left, level) ==
    IF left.err.kind # "nil" THEN left
    ELSE IF current(left.p).Type \in BinaryOperators[level]
    THEN binaryLoop(combine(left.node, current(left.p).Value,
                            parseOperand(Parser_advance(left.p), level)),
                    level)
    ELSE left

\* the function each of the six calls for its operands
parseOperand(p, level) ==
    CASE level = 1 -> parseLogicalAnd(p)
      [] level = 2 -> parseEquality(p)
      [] level = 3 -> parseComparison(p)
      [] level = 4 -> parseTerm(p)
      [] level = 5 -> parseFactor(p)
      [] level = 6 -> parseUnary(p)

parseLogicalOr(p) == parseBinary(p, 1)

parseLogicalAnd(p) == parseBinary(p, 2)

parseEquality(p) == parseBinary(p, 3)

parseComparison(p) == parseBinary(p, 4)

parseTerm(p) == parseBinary(p, 5)

parseFactor(p) == parseBinary(p, 6)

parseUnary(p) ==
    LET negate(operator, r) ==
            IF r.err.kind # "nil" THEN r
            ELSE Parsed(r.p, UnaryExpression(operator, r.node))
    IN  IF current(p).Type \in {"TokenMinus", "TokenNot"}
        THEN negate(current(p).Value, parseUnary(Parser_advance(p)))
        ELSE parsePrimary(p)

parsePrimary(p) ==
    LET literal(token, type) ==
            Parsed(Parser_advance(p), Literal(token.Literal, type))
        identifier(token, p1) ==
            IF current(p1).Type = "TokenLeftParen"
            THEN parseFunctionCall(p1, token.Value)
            ELSE Parsed(p1, Identifier(token.Value))
        closing(r) ==
            IF r.err.kind # "nil" THEN r
            ELSE IF current(r.p).Type # "TokenRightParen"
            THEN ParseError(r.p, "expected ')'", current(r.p).Value)
            ELSE Parsed(Parser_advance(r.p), r.node)
        primary(token) ==
            CASE token.Type = "TokenNumber" -> literal(token, NumberType)
              [] token.Type = "TokenText" -> literal(token, TextType)
              [] token.Type = "TokenBoolean" -> literal(token, BooleanType)
              [] token.Type = "TokenIdentifier" ->
                    identifier(token, Parser_advance(p))
              [] token.Type = "TokenLeftParen" ->
                    closing(parseExpression(Parser_advance(p)))
              [] OTHER -> ParseError(p, "unexpected token", token.Value)
    IN  primary(current(p))

\* the for loop of parseFunctionCall
argumentsLoop(p, arguments) ==
    LET append(r) ==
            IF r.err.kind # "nil" THEN r
            ELSE argumentsLoop(r.p, Append(arguments, r.node))
    IN  IF current(p).Type # "TokenRightParen"
        THEN IF Len(arguments) > 0 /\ current(p).Type # "TokenComma"
             THEN ParseError(p, "expected ',' between arguments",
                             current(p).Value)
             ELSE append(parseExpression(IF Len(arguments) > 0
                                         THEN Parser_advance(p) ELSE p))
        ELSE Parsed(p, arguments)

parseFunctionCall(p, name) ==
    LET closing(r) ==
            IF r.err.kind # "nil" THEN r
            ELSE IF current(r.p).Type # "TokenRightParen"
            THEN ParseError(r.p, "expected ')'", current(r.p).Value)
            ELSE Parsed(Parser_advance(r.p), FunctionCall(name, r.node))
    IN  closing(argumentsLoop(Parser_advance(p), <<>>))

parseVariableDeclaration(p) ==
    LET declare(varType, name, r) ==
            IF r.err.kind # "nil" THEN r
            ELSE IF varType.err.kind # "nil"
            THEN [p |-> r.p, node |-> <<>>, err |-> varType.err]
            ELSE Parsed(r.p, VariableDeclaration(varType.type, name, r.node))
        assign(typeToken, name, p2) ==
            IF current(p2).Type # "TokenAssign"
            THEN ParseError(p2, "expected '=' after variable name",
                            current(p2).Value)
            ELSE declare(TypeFromString(typeToken.Value), name,
                         parseExpression(Parser_advance(p2)))
        identifier(typeToken, p1) ==
            IF current(p1).Type # "TokenIdentifier"
            THEN ParseError(p1, "expected identifier after type",
                            current(p1).Value)
            ELSE assign(typeToken, current(p1).Value, Parser_advance(p1))
    IN  identifier(current(p), Parser_advance(p))

parseAssignment(p) ==
    LET assigned(name, r) ==
            IF r.err.kind # "nil" THEN r
            ELSE Parsed(r.p, Assignment(name, r.node))
        assign(name, p1) ==
            IF current(p1).Type # "TokenAssign"
            THEN ParseError(p1, "expected '=' after variable name",
                            current(p1).Value)
            ELSE assigned(name, parseExpression(Parser_advance(p1)))
    IN  assign(current(p).Value, Parser_advance(p))

parsePrintStatement(p) ==
    LET wrap(r) ==
            IF r.err.kind # "nil" THEN r
            ELSE Parsed(r.p, PrintStatement(r.node))
    IN  wrap(parseExpression(Parser_advance(p)))

parseExpressionStatement(p) ==
    LET wrap(r) ==
            IF r.err.kind # "nil" THEN r
            ELSE Parsed(r.p, PrintStatement(r.node))
    IN  wrap(parseExpression(p))

\* the statement loops of the if, loop and function bodies: parse
\* statements until the current token's type is in stops
parseBody(p, stops, body) ==
    LET append(r) ==
            IF r.err.kind # "nil" THEN r
            ELSE parseBody(r.p, stops, Append(body, r.node))
    IN  IF current(p).Type \notin stops
        THEN append(parseStatement(p))
        ELSE Parsed(p, body)

\* the statements up to 'end' (or the end of the input) from p on
parseBodyToEnd(p) == parseBody(p, {"TokenEnd", "TokenEOF"}, <<>>)

parseIfStatement(p) ==
    LET end(c, t, e) ==
            IF e.err.kind # "nil" THEN e
            ELSE IF current(e.p).Type # "TokenEnd"
            THEN ParseError(e.p, "expected 'end' after if statement",
                            current(e.p).Value)
            ELSE Parsed(Parser_advance(e.p),
                        IfStatement(c.node, t.node, e.node))
        else(c, t) ==
            IF t.err.kind # "nil" THEN t
            ELSE IF current(t.p).Type = "TokenElse"
            THEN end(c, t, parseBodyToEnd(Parser_advance(t.p)))
            ELSE end(c, t, Parsed(t.p, <<>>))
        then(c) ==
            IF c.err.kind # "nil" THEN c
            ELSE IF current(c.p).Type # "TokenThen"
            THEN ParseError(c.p, "expected 'then' after condition",
                            current(c.p).Value)
            ELSE else(c, parseBody(Parser_advance(c.p),
                                   {"TokenElse", "TokenEnd", "TokenEOF"},
                                   <<>>))
    IN  then(parseExpression(Parser_advance(p)))

parseLoopStatement(p) ==
    LET end(variable, f, t, b) ==
            IF b.err.kind # "nil" THEN b
            ELSE IF current(b.p).Type # "TokenEnd"
            THEN ParseError(b.p, "expected 'end' after loop body",
                            current(b.p).Value)
            ELSE Parsed(Parser_advance(b.p),
                        LoopStatement(variable, f.node, t.node, b.node))
        body(variable, f, t) ==
            IF t.err.kind # "nil" THEN t
            ELSE end(variable, f, t, parseBodyToEnd(t.p))
        to(variable, f) ==
            IF f.err.kind # "nil" THEN f
            ELSE IF current(f.p).Type # "TokenTo"
            THEN ParseError(f.p, "expected 'to' after 'from' expression",
                            current(f.p).Value)
            ELSE body(variable, f, parseExpression(Parser_advance(f.p)))
        from(variable, p2) ==
            IF current(p2).Type # "TokenFrom"
            THEN ParseError(p2, "expected 'from' after loop variable",
                            current(p2).Value)
            ELSE to(variable, parseExpression(Parser_advance(p2)))
        identifier(p1) ==
            IF current(p1).Type # "TokenIdentifier"
            THEN ParseError(p1, "expected identifier after 'loop'",
                            current(p1).Value)
            ELSE from(current(p1).Value, Parser_advance(p1))
    IN  identifier(Parser_advance(p))

RECURSIVE parametersLoop(_, _)
\* the for loop of parseFunctionDeclaration
parametersLoop(p, parameters) ==
    LET name(paramType, p2) ==
            IF paramType.err.kind # "nil"
            THEN [p |-> p2, node |-> <<>>, err |-> paramType.err]
            ELSE IF current(p2).Type # "TokenIdentifier"
            THEN ParseError(p2, "expected parameter name",
                            current(p2).Value)
            ELSE parametersLoop(
                     Parser_advance(p2),
                     Append(parameters, [Name |-> current(p2).Value,
                                         Type |-> paramType.type]))
        type(p1) ==
            IF current(p1).Type \notin TypeKeywords
            THEN ParseError(p1, "expected parameter type",
                            current(p1).Value)
            ELSE name(TypeFromString(current(p1).Value), Parser_advance(p1))
    IN  IF current(p).Type # "TokenRightParen"
        THEN IF Len(parameters) > 0 /\ current(p).Type # "TokenComma"
             THEN ParseError(p, "expected ',' between parameters",
                             current(p).Value)
             ELSE type(IF Len(parameters) > 0 THEN Parser_advance(p) ELSE p)
        ELSE Parsed(p, parameters)

parseFunctionDeclaration(p) ==
    LET end(name, ps, b) ==
            IF b.err.kind # "nil" THEN b
            ELSE IF current(b.p).Type # "TokenEnd"
            THEN ParseError(b.p, "expected 'end' after function body",
                            current(b.p).Value)
            ELSE Parsed(Parser_advance(b.p),
                        FunctionDeclaration(name, ps.node, b.node))
        body(name, ps) ==
            IF ps.err.kind # "nil" THEN ps
            ELSE end(name, ps, parseBodyToEnd(Parser_advance(ps.p)))
        parameters(name, p2) ==
            IF current(p2).Type # "TokenLeftParen"
            THEN ParseError(p2, "expected '(' after function name",
                            current(p2).Value)
            ELSE body(name, parametersLoop(Parser_advance(p2), <<>>))
        identifier(p1) ==
            IF current(p1).Type # "TokenIdentifier"
            THEN ParseError(p1, "expected function name after 'function'",
                            current(p1).Value)
            ELSE parameters(current(p1).Value, Parser_advance(p1))
    IN  identifier(Parser_advance(p))

parseStatement(p) ==
    LET statement(token) ==
            CASE token.Type \in TypeKeywords -> parseVariableDeclaration(p)
              [] token.Type = "TokenIdentifier" ->
                    IF peek(p).Type = "TokenAssign"
                    THEN parseAssignment(p)
                    ELSE parseExpressionStatement(p)
              [] token.Type = "TokenIf" -> parseIfStatement(p)
              [] token.Type = "TokenLoop" -> parseLoopStatement(p)
              [] token.Type = "TokenFunction" -> parseFunctionDeclaration(p)
              [] token.Type = "TokenPrint" -> parsePrintStatement(p)
              [] OTHER ->
                    [p |-> p, node |-> <<>>,
                     err |-> [kind |-> "parse error",
                              msg |-> "unexpected token",
                              got |-> token.Value, line |-> token.Line,
                              column |-> token.Column]]
    IN  statement(current(p))

RECURSIVE parseLoop(_, _)
\* parseIteration that goes on after a statement that did not parse
parseIteration_ContinueOnError(p, statements) ==
    LET append(r) ==
            IF r.err.kind # "nil"
            THEN [p |-> p, program |-> statements, err |-> NoError]
            ELSE [p |-> r.p, program |-> Append(statements, r.node),
                  err |-> NoError]
    IN  append(parseStatement(p))

\* one iteration of the for loop of Parse
parseIteration(p, statements) ==
    LET append(r) ==
            IF r.err.kind # "nil"
            THEN [p |-> r.p, program |-> <<>>, err |-> r.err]
            ELSE [p |-> r.p, program |-> Append(statements, r.node),
                  err |-> NoError]
    IN  append(parseStatement(p))

\* parseLoop that puts each statement before those parsed so far
parseLoop_Reversed(p, statements) ==
    LET prepend(r) ==
            IF r.err.kind # "nil"
            THEN [p |-> r.p, program |-> <<>>, err |-> r.err]
            ELSE parseLoop(r.p, <<r.node>> \o statements)
    IN  IF current(p).Type # "TokenEOF"
        THEN prepend(parseStatement(p))
        ELSE [p |-> p, program |-> statements, err |-> NoError]

\* the for loop of Parse
parseLoop(p, statements) ==
    LET append(r) ==
            IF r.err.kind # "nil"
            THEN [p |-> r.p, program |-> <<>>, err |-> r.err]
            ELSE parseLoop(r.p, Append(statements, r.node))
    IN  IF current(p).Type # "TokenEOF"
        THEN append(parseStatement(p))
        ELSE [p |-> p, program |-> statements, err |-> NoError]

\* the Parser after the call, Program.Statements and the error
Parse(p) == parseLoop(p, <<>>)

(***************************************************************************)
(* Numbers.  A float64 is modelled by the exact rational n/d (d > 0, in    *)
(* lowest terms); the model's programs stay within the decimals of at most *)
(* 15 significant digits, where float64 arithmetic and printing agree with *)
(* the exact ones.  Zero is the positive zero: no program of the model     *)
(* negates zero or divides zero by a negative number.                      *)
(***************************************************************************)
RECURSIVE Gcd(_, _)
Gcd(a, b) == IF b = 0 THEN a ELSE Gcd(b, a % b)

Abs(x) == IF x < 0 THEN -x ELSE x

Rat(n, d) ==
    LET g == Gcd(Abs(n), Abs(d))
        s == IF d < 0 THEN -1 ELSE 1
    IN  [n |-> (s * n) \div g, d |-> (s * d) \div g]

RatAdd(a, b) == Rat(a.n * b.d + b.n * a.d, a.d * b.d)

RatSub(a, b) == Rat(a.n * b.d - b.n * a.d, a.d * b.d)

RatMul(a, b) == Rat(a.n * b.n, a.d * b.d)

RatDiv(a, b) == Rat(a.n * b.d, a.d * b.n)

RatNeg(a) == [n |-> -a.n, d |-> a.d]

RatLess(a, b) == a.n * b.d < b.n * a.d

RatLeq(a, b) == a.n * b.d <= b.n * a.d

RECURSIVE Pow10(_)
Pow10(k) == IF k = 0 THEN 1 ELSE 10 * Pow10(k - 1)

DigitValue(c) ==
    CASE c = "0" -> 0 [] c = "1" -> 1 [] c = "2" -> 2 [] c = "3" -> 3
      [] c = "4" -> 4 [] c = "5" -> 5 [] c = "6" -> 6 [] c = "7" -> 7
      [] c = "8" -> 8 [] c = "9" -> 9

DigitChar(v) ==
    CASE v = 0 -> "0" [] v = 1 -> "1" [] v = 2 -> "2" [] v = 3 -> "3"
      [] v = 4 -> "4" [] v = 5 -> "5" [] v = 6 -> "6" [] v = 7 -> "7"
      [] v = 8 -> "8" [] v = 9 -> "9"

RECURSIVE DigitsValue(_)
\* the natural number written by the digit characters cs (0 for none)
DigitsValue(cs) ==
    IF cs = <<>> THEN 0
    ELSE 10 * DigitsValue(SubSeq(cs, 1, Len(cs) - 1))
         + DigitValue(cs[Len(cs)])

RECURSIVE DigitRunLen(_, _)
\* how many digits cs has from index i on
DigitRunLen(cs, i) ==
    IF i <= Len(cs) /\ IsDigit(cs[i]) THEN 1 + DigitRunLen(cs, i + 1) ELSE 0

\* fmt.Sscanf(str, "%f", &num): the scanner reads the longest prefix of the
\* form digits [ '.' digits ] and hands it to strconv.ParseFloat; input
\* left after that prefix is not an error
Sscanf_f(str) ==
    LET ni == DigitRunLen(str, 1)
        point == ni + 1 <= Len(str) /\ str[ni + 1] = "."
        nf == IF point THEN DigitRunLen(str, ni + 2) ELSE 0
        int == DigitsValue(SubSeq(str, 1, ni))
        frac == DigitsValue(SubSeq(str, ni + 2, ni + 1 + nf))
    IN  IF ni + nf = 0
        THEN [ok |-> FALSE, num |-> Rat(0, 1)]
        ELSE [ok |-> TRUE, num |-> Rat(int * Pow10(nf) + frac, Pow10(nf))]

RECURSIVE NatString(_)
\* the decimal digits of the natural number m
NatString(m) ==
    IF m < 10 THEN DigitChar(m)
    ELSE NatString(m \div 10) \o DigitChar(m % 10)

RECURSIVE NumDigits(_)
NumDigits(m) == IF m < 10 THEN 1 ELSE 1 + NumDigits(m \div 10)

RECURSIVE StripZeros(_)
\* m without its trailing decimal zeros
StripZeros(m) == IF m # 0 /\ m % 10 = 0 THEN StripZeros(m \div 10) ELSE m

RECURSIVE Zeros(_)
Zeros(k) == IF k <= 0 THEN "" ELSE "0" \o Zeros(k - 1)

RECURSIVE DecimalScale(_, _)
\* the least k with d dividing 10^k, for d = 2^a * 5^b
DecimalScale(d, k) ==
    IF Pow10(k) % d = 0 THEN k ELSE DecimalScale(d, k + 1)

\* fmt.Sprintf("%g", v): the shortest digits that give v back, in %e form
\* when the decimal exponent is below -4 or at least 6 (the shortest-form
\* precision strconv uses for that choice), in %f form otherwise
FormatG(r) ==
    LET \* the nd digits digs with the decimal point after the n-th
        withPoint(digs, nd, n) ==
            NatString(digs \div Pow10(nd - n)) \o "."
            \o Zeros(nd - n - NumDigits(digs % Pow10(nd - n)))
            \o NatString(digs % Pow10(nd - n))
        exponent(exp) ==
            (IF exp < 0 THEN "-" ELSE "+")
            \o (IF Abs(exp) < 10 THEN "0" ELSE "")
            \o NatString(Abs(exp))
        \* the nd digits digs, the last not 0, of a number whose decimal
        \* point is after the dp-th digit
        digits(digs, nd, dp) ==
            CASE dp - 1 < -4 \/ dp - 1 >= 6 ->
                    (IF nd = 1 THEN NatString(digs)
                     ELSE withPoint(digs, nd, 1))
                    \o "e" \o exponent(dp - 1)
              [] dp - 1 >= -4 /\ dp - 1 < 6 /\ dp >= nd ->
                    NatString(digs) \o Zeros(dp - nd)
              [] dp - 1 >= -4 /\ dp - 1 < 6 /\ dp < nd /\ dp > 0 ->
                    withPoint(digs, nd, dp)
              [] dp - 1 >= -4 /\ dp - 1 < 6 /\ dp <= 0 ->
                    "0." \o Zeros(-dp) \o NatString(digs)
        shortest(m, digs, k) == digits(digs, NumDigits(digs), NumDigits(m) - k)
        \* |r| = m / 10^k
        scaled(m, k) == shortest(m, StripZeros(m), k)
        scale(k) == scaled((Abs(r.n) * Pow10(k)) \div r.d, k)
    IN  IF r.n = 0 THEN "0"
        ELSE (IF r.n < 0 THEN "-" ELSE "") \o scale(DecimalScale(r.d, 0))

(***************************************************************************)
(* Values                                                                  *)
(***************************************************************************)
NumberValue(r) == [type |-> NumberType, Value |-> r]

TextValue(s) == [type |-> TextType, Value |-> s]

BooleanValue(b) == [type |-> BooleanType, Value |-> b]

VoidValue == [type |-> VoidType]

\* Value.String()
String(v) ==
    CASE v.type = NumberType -> FormatG(v.Value)
      [] v.type = TextType -> v.Value
      [] v.type = BooleanType -> IF v.Value THEN "true" ELSE "false"
      [] v.type = VoidType -> "void"

(***************************************************************************)
(* Evaluator.  i.environment is the chain of frames from the root (first)  *)
(* to the current Environment (last); a frame's parent is the frame before *)
(* it.  An interpreter state st is [environment, stdout].                  *)
(***************************************************************************)
EmptyMap == [name \in {} |-> VoidValue]

NewEnvironment == [variables |-> EmptyMap, functions |-> EmptyMap]

\* SetVariableAt that writes the parent of the frame too
SetVariableAt_ParentToo(chain, k, name, value) ==
    [j \in DOMAIN chain |->
        IF j = k \/ j = k - 1
        THEN [chain[j] EXCEPT !.variables = (name :> value) @@ @]
        ELSE chain[j]]

\* e.SetVariable(name, value) on the frame at index k of the chain
SetVariableAt(chain, k, name, value) ==
    [chain EXCEPT ![k].variables = (name :> value) @@ @]

\* SetVariable that writes the root frame instead of the current one
SetVariable_Root(chain, name, value) == SetVariableAt(chain, 1, name, value)

\* i.environment.SetVariable(name, value)
SetVariable(chain, name, value) ==
    SetVariableAt(chain, Len(chain), name, value)

RECURSIVE GetVariable(_, _)
GetVariable(chain, name) ==
    IF name \in DOMAIN chain[Len(chain)].variables
    THEN [value |-> chain[Len(chain)].variables[name], exists |-> TRUE]
    ELSE IF Len(chain) > 1
    THEN GetVariable(SubSeq(chain, 1, Len(chain) - 1), name)
    ELSE [value |-> VoidValue, exists |-> FALSE]

SetFunction(chain, name, function) ==
    [chain EXCEPT ![Len(chain)].functions = (name :> function) @@ @]

RECURSIVE GetFunction(_, _)
GetFunction(chain, name) ==
    IF name \in DOMAIN chain[Len(chain)].functions
    THEN [function |-> chain[Len(chain)].functions[name], exists |-> TRUE]
    ELSE IF Len(chain) > 1
    THEN GetFunction(SubSeq(chain, 1, Len(chain) - 1), name)
    ELSE [function |-> <<>>, exists |-> FALSE]

NewInterpreter == [environment |-> <<NewEnvironment>>, stdout |-> <<>>]

RuntimeError(msg) == [kind |-> "runtime error", msg |-> msg]

\* what an evaluation returns: the state after it, the value, the error
Value(st, value) == [st |-> st, value |-> value, err |-> NoError]

Failed(st, msg) == [st |-> st, value |-> VoidValue, err |-> RuntimeError(msg)]

BothNumbers(left, right) ==
    left.type = NumberType /\ right.type = NumberType

add(st, left, right) ==
    CASE BothNumbers(left, right) ->
            Value(st, NumberValue(RatAdd(left.Value, right.Value)))
      [] left.type = TextType /\ right.type = TextType ->
            Value(st, TextValue(left.Value \o right.Value))
      [] left.type = TextType /\ right.type = NumberType ->
            Value(st, TextValue(left.Value \o FormatG(right.Value)))
      [] left.type = NumberType /\ right.type = TextType ->
            Value(st, TextValue(FormatG(left.Value) \o right.Value))
      [] OTHER ->
            Failed(st, "cannot add " \o left.type \o " and " \o right.type)

subtract(st, left, right) ==
    IF BothNumbers(left, right)
    THEN Value(st, NumberValue(RatSub(left.Value, right.Value)))
    ELSE Failed(st, "cannot subtract " \o right.type \o " from "
                    \o left.type)

multiply(st, left, right) ==
    IF BothNumbers(left, right)
    THEN Value(st, NumberValue(RatMul(left.Value, right.Value)))
    ELSE Failed(st, "cannot multiply " \o left.type \o " and "
                    \o right.type)

\* divide that yields 0 for a zero divisor
divide_ZeroForZeroDivisor(st, left, right) ==
    IF BothNumbers(left, right)
    THEN IF right.Value.n = 0
         THEN Value(st, NumberValue(Rat(0, 1)))
         ELSE Value(st, NumberValue(RatDiv(left.Value, right.Value)))
    ELSE Failed(st, "cannot divide " \o left.type \o " by " \o right.type)

divide(st, left, right) ==
    IF BothNumbers(left, right)
    THEN IF right.Value.n = 0
         THEN Failed(st, "division by zero")
         ELSE Value(st, NumberValue(RatDiv(left.Value, right.Value)))
    ELSE Failed(st, "cannot divide " \o left.type \o " by " \o right.type)

\* math.Abs(l - r) < 1e-9
WithinTolerance(l, r) ==
    LET diff == RatSub(l, r)
    IN  Abs(diff.n) <= (diff.d - 1) \div 1000000000

equal(st, left, right) ==
    IF left.type # right.type
    THEN Value(st, BooleanValue(FALSE))
    ELSE CASE left.type = NumberType ->
                 Value(st, BooleanValue(WithinTolerance(left.Value,
                                                        right.Value)))
           [] left.type = TextType ->
                 Value(st, BooleanValue(left.Value = right.Value))
           [] left.type = BooleanType ->
                 Value(st, BooleanValue(left.Value = right.Value))
           [] OTHER -> Value(st, BooleanValue(FALSE))

notEqual(st, left, right) ==
    LET result == equal(st, left, right)
    IN  IF result.err.kind # "nil" THEN result
        ELSE Value(st, BooleanValue(~result.value.Value))

CannotCompare(st, left, right) ==
    Failed(st, "cannot compare " \o left.type \o " and " \o right.type)

\* lessThan that answers false for operands that are not both numbers
lessThan_MixedIsFalse(st, left, right) ==
    IF BothNumbers(left, right)
    THEN Value(st, BooleanValue(RatLess(left.Value, right.Value)))
    ELSE Value(st, BooleanValue(FALSE))

lessThan(st, left, right) ==
    IF BothNumbers(left, right)
    THEN Value(st, BooleanValue(RatLess(left.Value, right.Value)))
    ELSE CannotCompare(st, left, right)

lessEqual(st, left, right) ==
    IF BothNumbers(left, right)
    THEN Value(st, BooleanValue(RatLeq(left.Value, right.Value)))
    ELSE CannotCompare(st, left, right)

greaterThan(st, left, right) ==
    IF BothNumbers(left, right)
    THEN Value(st, BooleanValue(RatLess(right.Value, left.Value)))
    ELSE CannotCompare(st, left, right)

greaterEqual(st, left, right) ==
    IF BothNumbers(left, right)
    THEN Value(st, BooleanValue(RatLeq(right.Value, left.Value)))
    ELSE CannotCompare(st, left, right)

logicalAnd(st, left, right) ==
    IF left.type = BooleanType /\ right.type = BooleanType
    THEN Value(st, BooleanValue(left.Value /\ right.Value))
    ELSE Failed(st, "cannot perform logical AND on " \o left.type
                    \o " and " \o right.type)

logicalOr(st, left, right) ==
    IF left.type = BooleanType /\ right.type = BooleanType
    THEN Value(st, BooleanValue(left.Value \/ right.Value))
    ELSE Failed(st, "cannot perform logical OR on " \o left.type
                    \o " and " \o right.type)

evaluateLiteral(st, lit) ==
    CASE lit.Type = NumberType ->
            IF lit.Value.dyn = "string"
            THEN LET number(scanned) ==
                         IF ~scanned.ok
                         THEN Failed(st, "invalid number: " \o lit.Value.s)
                         ELSE Value(st, NumberValue(scanned.num))
                 IN  number(Sscanf_f(lit.Value.chars))
            ELSE Failed(st, "invalid number literal")
      [] lit.Type = TextType ->
            IF lit.Value.dyn = "string"
            THEN Value(st, TextValue(lit.Value.s))
            ELSE Failed(st, "invalid text literal")
      [] lit.Type = BooleanType ->
            IF lit.Value.dyn = "bool"
            THEN Value(st, BooleanValue(lit.Value.b))
            ELSE Failed(st, "invalid boolean literal")
      [] OTHER -> Failed(st, "unknown literal type: " \o lit.Type)

evaluateIdentifier(st, ident) ==
    LET lookup(found) ==
            IF ~found.exists
            THEN Failed(st, "undefined variable: " \o ident.Name)
            ELSE Value(st, found.value)
    IN  lookup(GetVariable(st.environment, ident.Name))

RECURSIVE executeStatement(_, _), executeBlock(_, _)
RECURSIVE executeVariableDeclaration(_, _), executeAssignment(_, _)
RECURSIVE executeIfStatement(_, _), executeLoopStatement(_, _)
RECURSIVE loopIterations(_, _, _, _, _), executePrintStatement(_, _)
RECURSIVE evaluateExpression(_, _), evaluateBinaryExpression(_, _)
RECURSIVE evaluateUnaryExpression(_, _), evaluateFunctionCall(_, _)
RECURSIVE evaluateArguments(_, _, _)

evaluateExpression(st, expr) ==
    CASE expr.node = "Literal" -> evaluateLiteral(st, expr)
      [] expr.node = "Identifier" -> evaluateIdentifier(st, expr)
      [] expr.node = "BinaryExpression" -> evaluateBinaryExpression(st, expr)
      [] expr.node = "UnaryExpression" -> evaluateUnaryExpression(st, expr)
      [] expr.node = "FunctionCall" -> evaluateFunctionCall(st, expr)
      [] OTHER -> Failed(st, "unknown expression type: " \o expr.node)

\* evaluateBinaryExpression that leaves the right operand of `and` after a
\* false left operand, and of `or` after a true one, unevaluated
evaluateBinaryExpression_ShortCircuit(st, expr) ==
    LET apply(op, s, left, right) ==
            CASE op = "+" -> add(s, left, right)
              [] op = "-" -> subtract(s, left, right)
              [] op = "*" -> multiply(s, left, right)
              [] op = "/" -> divide(s, left, right)
              [] op = "==" -> equal(s, left, right)
              [] op = "!=" -> notEqual(s, left, right)
              [] op = "<" -> lessThan(s, left, right)
              [] op = "<=" -> lessEqual(s, left, right)
              [] op = ">" -> greaterThan(s, left, right)
              [] op = ">=" -> greaterEqual(s, left, right)
              [] op = "and" -> logicalAnd(s, left, right)
              [] op = "or" -> logicalOr(s, left, right)
              [] OTHER -> Failed(s, "unknown binary operator: " \o op)
        withRight(l, r) ==
            IF r.err.kind # "nil" THEN r
            ELSE apply(expr.Operator, r.st, l.value, r.value)
        decided(l) ==
            /\ l.value.type = BooleanType
            /\ \/ expr.Operator = "and" /\ ~l.value.Value
               \/ expr.Operator = "or" /\ l.value.Value
        withLeft(l) ==
            IF l.err.kind # "nil" THEN l
            ELSE IF decided(l) THEN l
            ELSE withRight(l, evaluateExpression(l.st, expr.Right))
    IN  withLeft(evaluateExpression(st, expr.Left))

evaluateBinaryExpression(st, expr) ==
    LET apply(op, s, left, right) ==
            CASE op = "+" -> add(s, left, right)
              [] op = "-" -> subtract(s, left, right)
              [] op = "*" -> multiply(s, left, right)
              [] op = "/" -> divide(s, left, right)
              [] op = "==" -> equal(s, left, right)
              [] op = "!=" -> notEqual(s, left, right)
              [] op = "<" -> lessThan(s, left, right)
              [] op = "<=" -> lessEqual(s, left, right)
              [] op = ">" -> greaterThan(s, left, right)
              [] op = ">=" -> greaterEqual(s, left, right)
              [] op = "and" -> logicalAnd(s, left, right)
              [] op = "or" -> logicalOr(s, left, right)
              [] OTHER -> Failed(s, "unknown binary operator: " \o op)
        withRight(l, r) ==
            IF r.err.kind # "nil" THEN r
            ELSE apply(expr.Operator, r.st, l.value, r.value)
        withLeft(l) ==
            IF l.err.kind # "nil" THEN l
            ELSE withRight(l, evaluateExpression(l.st, expr.Right))
    IN  withLeft(evaluateExpression(st, expr.Left))

evaluateUnaryExpression(st, expr) ==
    LET apply(s, operand) ==
            CASE expr.Operator = "-" ->
                    IF operand.type # NumberType
                    THEN Failed(s, "cannot negate non-number value")
                    ELSE Value(s, NumberValue(RatNeg(operand.Value)))
              [] expr.Operator = "!" ->
                    IF operand.type # BooleanType
                    THEN Failed(s, "cannot negate non-boolean value")
                    ELSE Value(s, BooleanValue(~operand.Value))
              [] OTHER ->
                    Failed(s, "unknown unary operator: " \o expr.Operator)
        withOperand(o) ==
            IF o.err.kind # "nil" THEN o ELSE apply(o.st, o.value)
    IN  withOperand(evaluateExpression(st, expr.Operand))

\* the argument loop of evaluateFunctionCall; value is the list args
evaluateArguments(st, arguments, args) ==
    LET append(a) ==
            IF a.err.kind # "nil" THEN a
            ELSE evaluateArguments(a.st, arguments, Append(args, a.value))
    IN  IF Len(args) < Len(arguments)
        THEN append(evaluateExpression(st, arguments[Len(args) + 1]))
        ELSE Value(st, args)

RECURSIVE bindParameters_Unchecked(_, _, _, _)
\* bindParameters without the type check
bindParameters_Unchecked(funcEnv, parameters, args, j) ==
    IF j > Len(parameters)
    THEN [funcEnv |-> funcEnv, mismatch |-> 0]
    ELSE bindParameters_Unchecked(
             [funcEnv EXCEPT !.variables =
                 (parameters[j].Name :> args[j]) @@ @],
             parameters, args, j + 1)

RECURSIVE bindParameters(_, _, _, _)
\* the parameter loop of evaluateFunctionCall: funcEnv after binding
\* parameters j.. , or the first incompatible parameter
bindParameters(funcEnv, parameters, args, j) ==
    IF j > Len(parameters)
    THEN [funcEnv |-> funcEnv, mismatch |-> 0]
    ELSE IF ~IsCompatibleWith(parameters[j].Type, args[j].type)
    THEN [funcEnv |-> funcEnv, mismatch |-> j]
    ELSE bindParameters(
             [funcEnv EXCEPT !.variables =
                 (parameters[j].Name :> args[j]) @@ @],
             parameters, args, j + 1)

\* RestoreEnvironment that leaves the pushed frame current
RestoreEnvironment_Skipped(st, oldEnv) == st

\* the deferred i.environment = oldEnv: the chain is cut back to the frame
\* that was current when the construct began
RestoreEnvironment(st, oldEnv) ==
    [st EXCEPT !.environment = SubSeq(@, 1, Len(oldEnv))]

\* evaluateFunctionCall whose new frame has the root frame as parent
evaluateFunctionCall_RootParent(st, call) ==
    LET return(body, oldEnv) ==
            [st |-> [body.st EXCEPT !.environment =
                        <<Head(@)>> \o Tail(oldEnv)],
             value |-> VoidValue, err |-> body.err]
        execute(function, a, bound) ==
            IF bound.mismatch # 0
            THEN Failed(a.st, "type mismatch in function " \o call.Name
                              \o ": parameter "
                              \o function.Parameters[bound.mismatch].Name
                              \o " expects "
                              \o function.Parameters[bound.mismatch].Type
                              \o ", got " \o a.value[bound.mismatch].type)
            ELSE return(executeBlock([a.st EXCEPT !.environment =
                                         <<Head(@), bound.funcEnv>>],
                                     function.Body),
                        a.st.environment)
        bind(function, a) ==
            IF a.err.kind # "nil" THEN a
            ELSE IF Len(a.value) # Len(function.Parameters)
            THEN Failed(a.st, "function " \o call.Name \o " expects "
                              \o NatString(Len(function.Parameters))
                              \o " arguments, got " \o NatString(Len(a.value)))
            ELSE execute(function, a,
                         bindParameters(NewEnvironment, function.Parameters,
                                        a.value, 1))
        lookup(found) ==
            IF ~found.exists
            THEN Failed(st, "undefined function: " \o call.Name)
            ELSE bind(found.function,
                      evaluateArguments(st, call.Arguments, <<>>))
    IN  lookup(GetFunction(st.environment, call.Name))

evaluateFunctionCall(st, call) ==
    LET return(body, oldEnv) ==
            [st |-> RestoreEnvironment(body.st, oldEnv),
             value |-> VoidValue, err |-> body.err]
        execute(function, a, bound) ==
            IF bound.mismatch # 0
            THEN Failed(a.st, "type mismatch in function " \o call.Name
                              \o ": parameter "
                              \o function.Parameters[bound.mismatch].Name
                              \o " expects "
                              \o function.Parameters[bound.mismatch].Type
                              \o ", got " \o a.value[bound.mismatch].type)
            ELSE return(executeBlock([a.st EXCEPT !.environment =
                                         Append(@, bound.funcEnv)],
                                     function.Body),
                        a.st.environment)
        bind(function, a) ==
            IF a.err.kind # "nil" THEN a
            ELSE IF Len(a.value) # Len(function.Parameters)
            THEN Failed(a.st, "function " \o call.Name \o " expects "
                              \o NatString(Len(function.Parameters))
                              \o " arguments, got " \o NatString(Len(a.value)))
            ELSE execute(function, a,
                         bindParameters(NewEnvironment, function.Parameters,
                                        a.value, 1))
        lookup(found) ==
            IF ~found.exists
            THEN Failed(st, "undefined function: " \o call.Name)
            ELSE bind(found.function,
                      evaluateArguments(st, call.Arguments, <<>>))
    IN  lookup(GetFunction(st.environment, call.Name))

\* executeBlock that goes on with the next statement after an error
executeBlock_KeepGoing(st, statements) ==
    IF statements = <<>>
    THEN Value(st, VoidValue)
    ELSE executeBlock(executeStatement(st, Head(statements)).st,
                      Tail(statements))

\* a statement list executed in order up to the first error (the
\* for-range loops over Statements, ThenBody, ElseBody and Body)
executeBlock(st, statements) ==
    LET rest(r) ==
            IF r.err.kind # "nil" THEN r
            ELSE executeBlock(r.st, Tail(statements))
    IN  IF statements = <<>>
        THEN Value(st, VoidValue)
        ELSE rest(executeStatement(st, Head(statements)))

executeVariableDeclaration(st, stmt) ==
    LET declare(v) ==
            IF v.err.kind # "nil" THEN v
            ELSE IF ~IsCompatibleWith(stmt.Type, v.value.type)
            THEN Failed(v.st, "type mismatch: cannot assign "
                              \o v.value.type \o " to variable of type "
                              \o stmt.Type)
            ELSE Value([v.st EXCEPT !.environment =
                           SetVariable(@, stmt.Name, v.value)], v.value)
    IN  declare(evaluateExpression(st, stmt.Value))

executeAssignment(st, stmt) ==
    LET assign(v) ==
            IF v.err.kind # "nil" THEN v
            ELSE IF ~GetVariable(v.st.environment, stmt.Name).exists
            THEN Failed(v.st, "undefined variable: " \o stmt.Name)
            ELSE Value([v.st EXCEPT !.environment =
                           SetVariable(@, stmt.Name, v.value)], v.value)
    IN  assign(evaluateExpression(st, stmt.Value))

\* executeIfStatement that runs the body in a frame of its own
executeIfStatement_OwnFrame(st, stmt) ==
    LET finish(body) ==
            IF body.err.kind # "nil" THEN body
            ELSE Value(RestoreEnvironment(body.st, st.environment),
                       VoidValue)
        branch(c) ==
            IF c.err.kind # "nil" THEN c
            ELSE IF c.value.type # BooleanType
            THEN Failed(c.st, "condition must be boolean, got "
                              \o c.value.type)
            ELSE finish(executeBlock(
                            [c.st EXCEPT !.environment =
                                Append(@, NewEnvironment)],
                            IF c.value.Value THEN stmt.ThenBody
                            ELSE stmt.ElseBody))
    IN  branch(evaluateExpression(st, stmt.Condition))

executeIfStatement(st, stmt) ==
    LET finish(body) ==
            IF body.err.kind # "nil" THEN body
            ELSE Value(body.st, VoidValue)
        branch(c) ==
            IF c.err.kind # "nil" THEN c
            ELSE IF c.value.type # BooleanType
            THEN Failed(c.st, "condition must be boolean, got "
                              \o c.value.type)
            ELSE IF c.value.Value
            THEN finish(executeBlock(c.st, stmt.ThenBody))
            ELSE finish(executeBlock(c.st, stmt.ElseBody))
    IN  branch(evaluateExpression(st, stmt.Condition))

\* loopIterations that takes the next j from the loop variable's binding
loopIterations_ReadBack(st, stmt, loopEnv, j, to) ==
    LET next(body) ==
            IF body.err.kind # "nil" THEN body
            ELSE loopIterations(
                     body.st, stmt, loopEnv,
                     RatAdd(GetVariable(body.st.environment,
                                        stmt.Variable).value.Value,
                            Rat(1, 1)),
                     to)
    IN  IF RatLeq(j, to)
        THEN next(executeBlock([st EXCEPT !.environment =
                                   SetVariableAt(@, loopEnv, stmt.Variable,
                                                 NumberValue(j))],
                               stmt.Body))
        ELSE Value(st, VoidValue)

\* the loop for j := from; j <= to; j++ of executeLoopStatement, from j on;
\* loopEnv is the index of the loop's frame in the chain
loopIterations(st, stmt, loopEnv, j, to) ==
    LET next(body) ==
            IF body.err.kind # "nil" THEN body
            ELSE loopIterations(body.st, stmt, loopEnv,
                                RatAdd(j, Rat(1, 1)), to)
    IN  IF RatLeq(j, to)
        THEN next(executeBlock([st EXCEPT !.environment =
                                   SetVariableAt(@, loopEnv, stmt.Variable,
                                                 NumberValue(j))],
                               stmt.Body))
        ELSE Value(st, VoidValue)

executeLoopStatement(st, stmt) ==
    LET leave(loop, oldEnv) ==
            [st |-> RestoreEnvironment(loop.st, oldEnv),
             value |-> VoidValue, err |-> loop.err]
        enter(f, t) ==
            IF t.err.kind # "nil" THEN t
            ELSE IF f.value.type # NumberType \/ t.value.type # NumberType
            THEN Failed(t.st, "loop bounds must be numbers")
            ELSE leave(loopIterations(
                           [t.st EXCEPT !.environment =
                               Append(@, NewEnvironment)],
                           stmt, Len(t.st.environment) + 1,
                           f.value.Value, t.value.Value),
                       t.st.environment)
        bounds(f) ==
            IF f.err.kind # "nil" THEN f
            ELSE enter(f, evaluateExpression(f.st, stmt.To))
    IN  bounds(evaluateExpression(st, stmt.From))

executeFunctionDeclaration(st, stmt) ==
    Value([st EXCEPT !.environment = SetFunction(@, stmt.Name, stmt)],
          VoidValue)

executePrintStatement(st, stmt) ==
    LET output(v) ==
            IF v.err.kind # "nil" THEN v
            ELSE Value([v.st EXCEPT !.stdout = Append(@, String(v.value))],
                       VoidValue)
    IN  output(evaluateExpression(st, stmt.Value))

executeStatement(st, stmt) ==
    CASE stmt.node = "VariableDeclaration" ->
            executeVariableDeclaration(st, stmt)
      [] stmt.node = "Assignment" -> executeAssignment(st, stmt)
      [] stmt.node = "IfStatement" -> executeIfStatement(st, stmt)
      [] stmt.node = "LoopStatement" -> executeLoopStatement(st, stmt)
      [] stmt.node = "FunctionDeclaration" ->
            executeFunctionDeclaration(st, stmt)
      [] stmt.node = "PrintStatement" -> executePrintStatement(st, stmt)
      [] OTHER -> Failed(st, "unknown statement type: " \o stmt.node)

\* the interpreter state after the call and the returned error
Interpret(st, program) ==
    LET result(r) == [st |-> r.st, err |-> r.err]
    IN  result(executeBlock(st, program))

(***************************************************************************)
(* Sources                                                                 *)
(***************************************************************************)
Alphabet == {"a", "1", ".", "_", " ", "\n", "\"", "=", "!", "(", "{", ";", "@"}

\* every source of at most MaxLen characters of Alphabet
ShortSources == UNION {[1..n -> Alphabet] : n \in 0..MaxLen}

\* a character of every case of nextToken, and some of its default case
Characters ==
    Digits \cup Letters \cup Spaces
    \cup {"\"", "+", "-", "*", "/", "=", "<", ">", "!", "(", ")", "{", "}",
          ",", ";", ":"}
    \cup {".", "_", "@", "#", "$", "[", "]", "&", "|"}

\* every source of one character, alone and followed by '='
CharacterSources ==
    {<<c>> : c \in Characters} \cup {<<c, "=">> : c \in Characters}

\* the spelling of the words the example programs are written with; any
\* other word of a program is a single character
Spelling ==
    [number |-> <<"n", "u", "m", "b", "e", "r">>,
     text |-> <<"t", "e", "x", "t">>,
     boolean |-> <<"b", "o", "o", "l", "e", "a", "n">>,
     function |-> <<"f", "u", "n", "c", "t", "i", "o", "n">>,
     if |-> <<"i", "f">>,
     then |-> <<"t", "h", "e", "n">>,
     else |-> <<"e", "l", "s", "e">>,
     end |-> <<"e", "n", "d">>,
     loop |-> <<"l", "o", "o", "p">>,
     from |-> <<"f", "r", "o", "m">>,
     to |-> <<"t", "o">>,
     print |-> <<"p", "r", "i", "n", "t">>,
     and |-> <<"a", "n", "d">>,
     or |-> <<"o", "r">>,
     not |-> <<"n", "o", "t">>,
     true |-> <<"t", "r", "u", "e">>,
     false |-> <<"f", "a", "l", "s", "e">>,
     greet |-> <<"g", "r", "e", "e", "t">>,
     flag |-> <<"f", "l", "a", "g">>,
     Hi |-> <<"\"", "H", "i", " ", "\"">>,
     Ada |-> <<"\"", "A", "d", "a", "\"">>,
     dotted |-> <<"1", ".", "2", ".", "3">>]

\* the spelling of the two-character operators
Symbols ==
    ("==" :> <<"=", "=">>) @@ ("!=" :> <<"!", "=">>)
    @@ ("<=" :> <<"<", "=">>) @@ (">=" :> <<">", "=">>)

Spell(word) ==
    CASE word \in DOMAIN Spelling -> Spelling[word]
      [] word \in DOMAIN Symbols -> Symbols[word]
      [] OTHER -> <<word>>

RECURSIVE Source(_)
\* the source text of a program given word by word: the words' characters
\* with one space between two words ("\n" is a word too)
Source(words) ==
    IF words = <<>> THEN <<>>
    ELSE IF Len(words) = 1 THEN Spell(words[1])
    ELSE Spell(words[1]) \o <<" ">> \o Source(Tail(words))

\* spec section 8, scenario 6
Factorial ==
    Source(<<"number", "n", "=", "5", "\n",
             "number", "r", "=", "1", "\n",
             "loop", "i", "from", "1", "to", "n", "\n",
             "r", "=", "r", "*", "i", "\n",
             "end", "\n",
             "print", "r">>)

\* spec section 8, scenario 5
Greet ==
    Source(<<"function", "greet", "(", "text", "n", ")", "\n",
             "print", "Hi", "+", "n", "\n",
             "end", "\n",
             "greet", "(", "Ada", ")">>)

\* boolean flag = true
BooleanFlag == Source(<<"boolean", "flag", "=", "true">>)

\* print a and b
PrintAnd == Source(<<"print", "a", "and", "b">>)

\* print a or b
PrintOr == Source(<<"print", "a", "or", "b">>)

\* print 1.2.3
PrintDotted == Source(<<"print", "dotted">>)

Examples == {Factorial, Greet, BooleanFlag, PrintAnd, PrintOr, PrintDotted}

\* the words of the integer k of -9..9 in a source
NumberWords(k) == IF k < 0 THEN <<"-", DigitChar(-k)>> ELSE <<DigitChar(k)>>

\* loop bodies: each prints i first, then leaves i and n alone, assigns to
\* the loop variable, assigns to the variable of the bound expression,
\* or declares that variable anew
LoopBodies ==
    <<<<"print", "i", "\n">>,
      <<"print", "i", "\n", "i", "=", "i", "+", "2", "\n">>,
      <<"print", "i", "\n", "n", "=", "0", "\n">>,
      <<"print", "i", "\n", "number", "n", "=", "0", "\n">>,
      <<"print", "i", "\n", "number", "i", "=", "7", "\n">>>>

LoopRange == -1..MaxLoop

\* number n = B  loop i from A to n  <body>  end
LoopSource ==
    [A \in LoopRange, B \in LoopRange, b \in DOMAIN LoopBodies |->
        Source(<<"number", "n", "=">> \o NumberWords(B)
               \o <<"\n", "loop", "i", "from">> \o NumberWords(A)
               \o <<"to", "n", "\n">> \o LoopBodies[b] \o <<"end">>)]

Loops == {LoopSource[x] : x \in DOMAIN LoopSource}

\* the constructs that push a frame, and the two ways their body binds x:
\* by a declaration in the body, or as the loop variable or the parameter
ScopeBodies ==
    [loop |->
        [declared |-> <<"loop", "i", "from", "1", "to", "2", "\n",
                        "number", "x", "=", "7", "\n",
                        "x", "=", "x", "+", "1", "\n",
                        "print", "x", "\n", "end", "\n">>,
         bound |-> <<"loop", "x", "from", "1", "to", "2", "\n",
                     "x", "=", "x", "+", "5", "\n",
                     "print", "x", "\n", "end", "\n">>],
     function |->
        [declared |-> <<"function", "f", "(", "number", "p", ")", "\n",
                        "number", "x", "=", "7", "\n",
                        "x", "=", "x", "+", "1", "\n",
                        "print", "x", "\n", "end", "\n",
                        "f", "(", "3", ")", "\n">>,
         bound |-> <<"function", "f", "(", "number", "x", ")", "\n",
                     "x", "=", "x", "+", "5", "\n",
                     "print", "x", "\n", "end", "\n",
                     "f", "(", "3", ")", "\n">>]]

\* [number x = 9]  <construct binding x in its body>  print x
ScopeSource ==
    [c \in {"loop", "function"}, b \in {"declared", "bound"},
     outer \in BOOLEAN |->
        Source((IF outer THEN <<"number", "x", "=", "9", "\n">> ELSE <<>>)
               \o ScopeBodies[c][b] \o <<"print", "x">>)]

Scopes == {ScopeSource[x] : x \in DOMAIN ScopeSource}

\* a statement that raises a diagnostic, or none
FaultStatement ==
    [none |-> <<>>,
     undefined |-> <<"print", "q", "\n">>,
     division |-> <<"number", "z", "=", "1", "/", "0", "\n">>]

\* the diagnostic the statement raises
FaultMessage ==
    [undefined |-> "undefined variable: q", division |-> "division by zero"]

\* print 2  <fault>  print 3
FaultyBody(fault) ==
    <<"print", "2", "\n">> \o FaultStatement[fault] \o <<"print", "3", "\n">>

\* the body at the top level, in an if body, in a loop body, in a function
\* body, and in an if in a loop in a function
FaultyConstruct(fault) ==
    [top |-> FaultyBody(fault),
     if |-> <<"if", "1", "==", "1", "then", "\n">> \o FaultyBody(fault)
            \o <<"end", "\n">>,
     loop |-> <<"loop", "i", "from", "1", "to", "2", "\n">>
              \o FaultyBody(fault) \o <<"end", "\n">>,
     function |-> <<"function", "f", "(", ")", "\n">> \o FaultyBody(fault)
                  \o <<"end", "\n", "f", "(", ")", "\n">>,
     nested |-> <<"function", "f", "(", ")", "\n",
                  "loop", "i", "from", "1", "to", "2", "\n",
                  "if", "1", "==", "1", "then", "\n">>
                \o FaultyBody(fault)
                \o <<"end", "\n", "end", "\n", "end", "\n",
                     "f", "(", ")", "\n">>]

\* print 1  <construct>  print 4
FailureSource ==
    [where \in {"top", "if", "loop", "function", "nested"},
     fault \in DOMAIN FaultStatement |->
        Source(<<"print", "1", "\n">> \o FaultyConstruct(fault)[where]
               \o <<"print", "4">>)]

Failures == {FailureSource[x] : x \in DOMAIN FailureSource}

\* literals of the three types as they are written in a source, the
\* numbers in their shortest decimal form
Literals ==
    {<<"0">>, <<"7">>, <<"4", "2">>, <<"1", ".", "5">>,
     <<"\"", "\"">>, <<"\"", "H", "i", "\"">>,
     Spelling.true, Spelling.false}

\* print <literal>
LiteralSource == [lit \in Literals |-> Spelling.print \o <<" ">> \o lit]

LiteralSources == {LiteralSource[lit] : lit \in Literals}

Dividends == -1..MaxDividend

\* zero, and divisors whose quotients are short decimals
Divisors == {0, 1, 2, 4, 5, 8}

\* spec section 8, scenario 7: number x = A  number y = B  print x / y
DivisionSource ==
    [A \in Dividends, B \in Divisors |->
        Source(<<"number", "x", "=">> \o NumberWords(A)
               \o <<"\n", "number", "y", "=">> \o NumberWords(B)
               \o <<"\n", "print", "x", "/", "y">>)]

Divisions == {DivisionSource[x] : x \in DOMAIN DivisionSource}

\* operand expressions of every value variant: two numbers, two texts, the
\* two booleans, and the void result of a call
Operands ==
    [one |-> <<"1">>, two |-> <<"2">>,
     hi |-> <<"Hi">>, ada |-> <<"Ada">>,
     yes |-> <<"(", "1", "==", "1", ")">>,
     no |-> <<"(", "1", "==", "2", ")">>,
     call |-> <<"f", "(", ")">>]

\* the variant of the operand's value
OperandType ==
    [one |-> NumberType, two |-> NumberType, hi |-> TextType,
     ada |-> TextType, yes |-> BooleanType, no |-> BooleanType,
     call |-> VoidType]

OrderingOperators == {"<", "<=", ">", ">="}

\* function f() end  print L == R  print L != R  print L op R
ComparisonSource ==
    [l \in DOMAIN Operands, r \in DOMAIN Operands,
     op \in OrderingOperators |->
        Source(<<"function", "f", "(", ")", "\n", "end", "\n", "print">>
               \o Operands[l] \o <<"==">> \o Operands[r]
               \o <<"\n", "print">>
               \o Operands[l] \o <<"!=">> \o Operands[r]
               \o <<"\n", "print">>
               \o Operands[l] \o <<op>> \o Operands[r])]

Comparisons == {ComparisonSource[x] : x \in DOMAIN ComparisonSource}

\* a statement of each variant by its leading token, and four tokens no
\* statement starts with
StatementForms ==
    [declaration |-> <<"number", "x", "=", "1">>,
     assignment |-> <<"x", "=", "2">>,
     bare |-> <<"y">>,
     if |-> <<"if", "x", "==", "1", "then", "end">>,
     loop |-> <<"loop", "i", "from", "1", "to", "2", "end">>,
     function |-> <<"function", "f", "(", ")", "end">>,
     print |-> <<"print", "z">>,
     number |-> <<"1">>,
     text |-> <<"Hi">>,
     closing |-> <<")">>,
     end |-> <<"end">>]

\* the programs of at most MaxStatements of them
StatementPrograms ==
    UNION {[1..n -> DOMAIN StatementForms] : n \in 0..MaxStatements}

RECURSIVE ProgramWords(_)
\* the words of the program, a newline after each statement
ProgramWords(program) ==
    IF program = <<>> THEN <<>>
    ELSE StatementForms[Head(program)] \o <<"\n">>
         \o ProgramWords(Tail(program))

StatementSource ==
    [program \in StatementPrograms |-> Source(ProgramWords(program))]

StatementSources == {StatementSource[x] : x \in DOMAIN StatementSource}

\* an argument expression of each value variant; the void one is a call of
\* g, which prints 7
ArgumentWords ==
    [number |-> <<"1">>,
     text |-> <<"Hi">>,
     boolean |-> <<"(", "1", "==", "1", ")">>,
     void |-> <<"g", "(", ")">>]

\* the argument lists of at most MaxArguments of them
ArgumentLists ==
    UNION {[1..n -> DOMAIN ArgumentWords] : n \in 0..MaxArguments}

RECURSIVE ArgumentListWords(_)
\* the words of the argument list, commas between the arguments
ArgumentListWords(args) ==
    IF args = <<>> THEN <<>>
    ELSE IF Len(args) = 1 THEN ArgumentWords[args[1]]
    ELSE ArgumentWords[args[1]] \o <<",">> \o ArgumentListWords(Tail(args))

\* number x = 1  function g() print 7 end
\* function f(number a, text b) print 8 end  f(<arguments>)  print 9
CallSource ==
    [args \in ArgumentLists |->
        Source(<<"number", "x", "=", "1", "\n",
                 "function", "g", "(", ")", "\n", "print", "7", "\n",
                 "end", "\n",
                 "function", "f", "(", "number", "a", ",", "text", "b", ")",
                 "\n", "print", "8", "\n", "end", "\n",
                 "f", "(">> \o ArgumentListWords(args)
               \o <<")", "\n", "print", "9">>)]

CallSources == {CallSource[x] : x \in DOMAIN CallSource}

\* a write of 5 to x followed by `print x`: a declaration, an assignment,
\* the binding of a loop variable, the binding of a parameter
FrameWrites ==
    [declaration |-> <<"number", "x", "=", "5", "\n", "print", "x", "\n">>,
     assignment |-> <<"x", "=", "5", "\n", "print", "x", "\n">>,
     loop |-> <<"loop", "x", "from", "5", "to", "5", "\n",
                "print", "x", "\n", "end", "\n">>,
     parameter |-> <<"function", "g", "(", "number", "x", ")", "\n",
                     "print", "x", "\n", "end", "\n",
                     "g", "(", "5", ")", "\n">>]

\* where the write is made: in the root frame, in the frame of a loop, in
\* the frame of a call whose parameter is x = 2, in the frame of a loop in
\* that call; `print x` follows the write in every frame
FrameContexts(write) ==
    [top |-> write,
     loop |-> <<"loop", "i", "from", "1", "to", "1", "\n">> \o write
              \o <<"print", "x", "\n", "end", "\n">>,
     function |-> <<"function", "f", "(", "number", "x", ")", "\n">>
                  \o write
                  \o <<"print", "x", "\n", "end", "\n",
                       "f", "(", "2", ")", "\n">>,
     nested |-> <<"function", "f", "(", "number", "x", ")", "\n",
                  "loop", "i", "from", "3", "to", "3", "\n">>
                \o write
                \o <<"print", "x", "\n", "end", "\n",
                     "print", "x", "\n", "end", "\n",
                     "f", "(", "2", ")", "\n">>]

\* number x = 1  <context with the write>  print x
FrameSource ==
    [w \in DOMAIN FrameWrites, c \in {"top", "loop", "function", "nested"} |->
        Source(<<"number", "x", "=", "1", "\n">>
               \o FrameContexts(FrameWrites[w])[c] \o <<"print", "x">>)]

Frames == {FrameSource[x] : x \in DOMAIN FrameSource}

\* the else part of an if statement, or none
ElseParts ==
    [else |-> <<"else", "\n", "number", "v", "=", "3", "\n",
                "print", "4", "\n">>,
     none |-> <<>>]

\* if <condition> then  number v = 1  print 2  [else  number v = 3
\* print 4]  end  print v
IfWords(condition, else) ==
    <<"if">> \o Operands[condition]
    \o <<"then", "\n", "number", "v", "=", "1", "\n", "print", "2", "\n">>
    \o ElseParts[else] \o <<"end", "\n", "print", "v", "\n">>

\* function f() end  <if statement>, at the top level or in a loop body
IfSource ==
    [condition \in DOMAIN Operands, else \in DOMAIN ElseParts,
     where \in {"top", "loop"} |->
        Source(<<"function", "f", "(", ")", "\n", "end", "\n">>
               \o (IF where = "loop"
                   THEN <<"loop", "i", "from", "1", "to", "1", "\n">>
                        \o IfWords(condition, else) \o <<"end", "\n">>
                   ELSE IfWords(condition, else)))]

Ifs == {IfSource[x] : x \in DOMAIN IfSource}

\* the function s, which prints x: x is free in its body, or is its
\* parameter; and the call of s
Callees ==
    [free |-> [declaration |-> <<"function", "s", "(", ")", "\n",
                                 "print", "x", "\n", "end", "\n">>,
               call |-> <<"s", "(", ")", "\n">>],
     parameter |-> [declaration |-> <<"function", "s", "(", "number", "x",
                                      ")", "\n", "print", "x", "\n",
                                      "end", "\n">>,
                    call |-> <<"s", "(", "2", ")", "\n">>]]

\* where s is called: at the top level, in a loop whose variable is x,
\* in a function with a local x, in a function whose parameter is x
CallSites(call) ==
    [top |-> call,
     loop |-> <<"loop", "x", "from", "5", "to", "5", "\n">> \o call
              \o <<"end", "\n">>,
     local |-> <<"function", "c", "(", ")", "\n",
                 "number", "x", "=", "7", "\n">> \o call
               \o <<"end", "\n", "c", "(", ")", "\n">>,
     parameter |-> <<"function", "c", "(", "number", "x", ")", "\n">>
                   \o call \o <<"end", "\n", "c", "(", "8", ")", "\n">>]

\* [number x = 1]  <declaration of s>  <call site>
DynamicSource ==
    [callee \in DOMAIN Callees,
     site \in {"top", "loop", "local", "parameter"}, outer \in BOOLEAN |->
        Source((IF outer THEN <<"number", "x", "=", "1", "\n">> ELSE <<>>)
               \o Callees[callee].declaration
               \o CallSites(Callees[callee].call)[site])]

Dynamics == {DynamicSource[x] : x \in DOMAIN DynamicSource}

\* the four writes of a variable, given the void result of f() to bind
VoidWrites ==
    [declaration |-> <<"number", "x", "=", "f", "(", ")", "\n">>,
     assignment |-> <<"number", "x", "=", "1", "\n",
                      "x", "=", "f", "(", ")", "\n">>,
     loop |-> <<"loop", "x", "from", "f", "(", ")", "to", "1", "\n",
                "end", "\n">>,
     parameter |-> <<"function", "g", "(", "number", "x", ")", "\n",
                     "end", "\n", "g", "(", "f", "(", ")", ")", "\n">>]

\* function f() end  <write>  print 9
VoidSource ==
    [w \in DOMAIN VoidWrites |->
        Source(<<"function", "f", "(", ")", "\n", "end", "\n">>
               \o VoidWrites[w] \o <<"print", "9">>)]

Voids == {VoidSource[w] : w \in DOMAIN VoidWrites}

Sources ==
    ShortSources \cup CharacterSources \cup Examples \cup Loops \cup Scopes
    \cup Failures \cup LiteralSources \cup Divisions \cup Comparisons
    \cup StatementSources \cup CallSources \cup Frames
    \cup Ifs \cup Dynamics \cup Voids

(***************************************************************************)
(* The pipeline of cmd/compiler/main.go                                    *)
(***************************************************************************)
\* no second run has been made
NotRun == [done |-> FALSE]

Init ==
    /\ \E source \in Sources : lex = NewLexer(source)
    /\ tokens = <<>>
    /\ ast = <<>>
    /\ environment = <<>>
    /\ stdout = <<>>
    /\ err = NoError
    /\ pc = "lex"
    /\ typeName = ""
    /\ declType = ""
    /\ actual = VoidValue
    /\ compatible = FALSE
    /\ second = NotRun
    /\ parser = NewParser(<<>>)

\* lex.Tokenize(): one iteration of its loop
TokenizeIteration ==
    /\ pc = "lex"
    /\ lex.position < Len(lex.input)
    /\ LET r == tokenizeIteration(lex)
       IN  /\ lex' = r.l
           /\ err' = r.err
           /\ pc' = IF r.err.kind # "nil" THEN "exit1" ELSE "lex"
    /\ UNCHANGED <<tokens, ast, environment, stdout, typeVars, second,
                   parser>>

\* lex.Tokenize(): the loop is over, the token list is returned
TokenizeReturn ==
    /\ pc = "lex"
    /\ lex.position >= Len(lex.input)
    /\ lex' = tokenizeReturn(lex)
    /\ tokens' = lex'.tokens
    /\ pc' = "parse"
    /\ UNCHANGED <<ast, environment, stdout, err, typeVars, second, parser>>

\* ast, err := parser.NewParser(tokens).Parse()
Parsing ==
    /\ pc = "parse"
    /\ LET r == Parse(NewParser(tokens))
       IN  /\ ast' = r.program
           /\ err' = r.err
           /\ pc' = IF r.err.kind # "nil" THEN "exit1" ELSE "run"
    /\ UNCHANGED <<lex, tokens, environment, stdout, typeVars, second,
                   parser>>

\* err = interpreter.NewInterpreter().Interpret(ast)
Execution ==
    /\ pc = "run"
    /\ LET r == Interpret(NewInterpreter, ast)
       IN  /\ environment' = r.st.environment
           /\ stdout' = r.st.stdout
           /\ err' = r.err
           /\ pc' = IF r.err.kind # "nil" THEN "exit1" ELSE "exit0"
    /\ UNCHANGED <<lex, tokens, ast, typeVars, second, parser>>

Next == TokenizeIteration \/ TokenizeReturn \/ Parsing \/ Execution

Spec == Init /\ [][Next]_vars

\* SecondRun that goes on with the interpreter of the first run
SecondRun_Continued(first, program) == Interpret(first, program)

\* the evaluator run once more on the program, first being the interpreter
\* the first run left: a new interpreter is made, first is not used
SecondRun(first, program) == Interpret(NewInterpreter, program)

\* err = interpreter.NewInterpreter().Interpret(ast), a second time
SecondExecution ==
    /\ pc = "exit0" \/ (pc = "exit1" /\ err.kind = "runtime error")
    /\ ~second.done
    /\ LET r == SecondRun([environment |-> environment, stdout |-> stdout],
                          ast)
       IN  second' = [done |-> TRUE, stdout |-> r.st.stdout, err |-> r.err]
    /\ UNCHANGED <<lex, tokens, ast, environment, stdout, err, pc, typeVars,
                   parser>>

TwiceNext == Next \/ SecondExecution

\* the pipeline, and then the evaluator once more on the same program
TwiceSpec == Init /\ [][TwiceNext]_vars

\* lex.Tokenize() called once more on the lexer whose first call has
\* returned a token list
TokenizeAgain ==
    /\ pc = "parse"
    /\ ~second.done
    /\ LET r == Tokenize(lex)
       IN  /\ lex' = r.l
           /\ second' = [done |-> TRUE, tokens |-> r.tokens, err |-> r.err]
    /\ UNCHANGED <<tokens, ast, environment, stdout, err, pc, typeVars,
                   parser>>

RepeatNext == TokenizeIteration \/ TokenizeReturn \/ TokenizeAgain

\* the scanner alone, Tokenize called twice on one Lexer
RepeatSpec == Init /\ [][RepeatNext]_vars

(***************************************************************************)
(* The scanner and the parser followed iteration by iteration              *)
(***************************************************************************)
\* a program with a parameter list, argument lists and nested blocks
NestedProgram ==
    Source(<<"function", "f", "(", "number", "a", ",", "text", "b", ")",
             "\n", "if", "a", "==", "1", "then", "\n",
             "print", "g", "(", "a", ",", "b", "+", "Hi", ")", "\n",
             "else", "\n", "loop", "i", "from", "1", "to", "2", "\n",
             "b", "=", "b", "+", "i", "\n", "end", "\n", "end", "\n",
             "end", "\n", "f", "(", "1", ",", "Ada", ")">>)

\* the program cut off after each of its characters
CutOffSources ==
    {SubSeq(NestedProgram, 1, k) : k \in 0..Len(NestedProgram)}

\* the token list of the program cut off after each of its tokens, no
\* end-of-input token at its end
CutOffTokens ==
    LET all == Tokenize(NewLexer(NestedProgram)).tokens
    IN  {SubSeq(all, 1, k) : k \in 0..(Len(all) - 1)}

\* a source to scan and then parse, or a token list to parse
TerminationInit ==
    /\ \/ /\ \E source \in ShortSources \cup CharacterSources
                           \cup CutOffSources :
                 lex = NewLexer(source)
          /\ tokens = <<>>
          /\ pc = "lex"
       \/ /\ lex = NewLexer(<<>>)
          /\ tokens \in CutOffTokens
          /\ pc = "parse"
    /\ ast = <<>>
    /\ environment = <<>>
    /\ stdout = <<>>
    /\ err = NoError
    /\ typeName = ""
    /\ declType = ""
    /\ actual = VoidValue
    /\ compatible = FALSE
    /\ second = NotRun
    /\ parser = NewParser(<<>>)

\* parser := parser.NewParser(tokens), and the empty Program of Parse
ParserNew ==
    /\ pc = "parse"
    /\ parser' = NewParser(tokens)
    /\ ast' = <<>>
    /\ pc' = "parsing"
    /\ UNCHANGED <<lex, tokens, environment, stdout, err, typeVars, second>>

\* parser.Parse(): one iteration of its loop
ParseIteration ==
    /\ pc = "parsing"
    /\ current(parser).Type # "TokenEOF"
    /\ LET r == parseIteration(parser, ast)
       IN  /\ parser' = r.p
           /\ ast' = r.program
           /\ err' = r.err
           /\ pc' = IF r.err.kind # "nil" THEN "exit1" ELSE "parsing"
    /\ UNCHANGED <<lex, tokens, environment, stdout, typeVars, second>>

\* parser.Parse(): the loop is over, the program is returned
ParseReturn ==
    /\ pc = "parsing"
    /\ current(parser).Type = "TokenEOF"
    /\ pc' = "run"
    /\ UNCHANGED <<lex, tokens, ast, environment, stdout, err, typeVars,
                   second, parser>>

TerminationNext ==
    \/ TokenizeIteration
    \/ TokenizeReturn
    \/ ParserNew
    \/ ParseIteration
    \/ ParseReturn

\* a call of Tokenize or of Parse is under way
Active == pc \in {"lex", "parse", "parsing"}

\* a call under way goes on: it does not stop between two iterations
\* (weak fairness of TerminationNext, which is enabled wherever Active
\* holds, written without ENABLED)
GoesOn == []<>(~Active) \/ []<><<TerminationNext>>_vars

TerminationSpec == TerminationInit /\ [][TerminationNext]_vars /\ GoesOn

(***************************************************************************)
(* The parser on token lists: NewParser(tokens).Parse() for the tokens of  *)
(* `print <expression>`, the expression drawn token by token               *)
(***************************************************************************)
\* the token kind of an operator or punctuation word
WordType ==
    ("or" :> "TokenOr") @@ ("and" :> "TokenAnd")
    @@ ("==" :> "TokenEqual") @@ ("!=" :> "TokenNotEqual")
    @@ ("<" :> "TokenLessThan") @@ ("<=" :> "TokenLessEqual")
    @@ (">" :> "TokenGreaterThan") @@ (">=" :> "TokenGreaterEqual")
    @@ ("+" :> "TokenPlus") @@ ("-" :> "TokenMinus")
    @@ ("*" :> "TokenMultiply") @@ ("/" :> "TokenDivide")
    @@ ("!" :> "TokenNot") @@ ("(" :> "TokenLeftParen")
    @@ (")" :> "TokenRightParen") @@ ("," :> "TokenComma")
    @@ ("print" :> "TokenPrint") @@ ("" :> "TokenEOF")

\* the token of a word: a digit is a number, a letter an identifier
TokenOf(word) ==
    CASE word \in Digits ->
            Token("TokenNumber", word, 1, 1, StringLiteral(<<word>>))
      [] word \in Letters ->
            Token("TokenIdentifier", word, 1, 1, StringLiteral(<<word>>))
      [] OTHER -> Token(WordType[word], word, 1, 1, NilLiteral)

\* the token list of the words
TokensOf(words) == [k \in DOMAIN words |-> TokenOf(words[k])]

\* an operand, an operator of each binary level (the minus is the unary
\* operator too) and the parentheses
ExpressionWords == {"1", "or", "and", "==", "<", "-", "*", "(", ")"}

\* longer expressions: the other operators, identifiers, calls, nesting
ExpressionExamples ==
    {<<"!", "!", "a">>,
     <<"-", "!", "-", "a">>,
     <<"!", "a", "==", "!", "b">>,
     <<"!", "(", "a", "or", "b", ")", "and", "c">>,
     <<"a", "+", "b", "*", "c">>,
     <<"a", "*", "b", "+", "c">>,
     <<"(", "a", "+", "b", ")", "*", "c">>,
     <<"a", "-", "(", "b", "-", "c", ")">>,
     <<"a", "/", "b", "/", "c", "/", "d">>,
     <<"a", "!=", "b", "!=", "c">>,
     <<"a", "<=", "b", ">=", "c", ">", "d">>,
     <<"1", "or", "2", "and", "3", "==", "4", "<", "5", "+", "6", "*",
       "-", "7">>,
     <<"!", "1", "*", "2", "-", "3", ">", "4", "!=", "5", "and", "6",
       "or", "7">>,
     <<"f", "(", ")">>,
     <<"f", "(", "1", ",", "2", "+", "3", ")", "*", "4">>,
     <<"-", "f", "(", "(", "1", ")", ",", "g", "(", "2", ")", ")">>}

\* the opening parentheses of the words
Opening(words) == {k \in DOMAIN words : words[k] = "("}

ExpressionSequences ==
    {words \in UNION {[1..n -> ExpressionWords] : n \in 1..MaxTokens} :
        Cardinality(Opening(words)) <= MaxParentheses}
    \cup ExpressionExamples

ExpressionInit ==
    /\ \E words \in ExpressionSequences :
          tokens = TokensOf(<<"print">> \o words \o <<"">>)
    /\ lex = NewLexer(<<>>)
    /\ ast = <<>>
    /\ environment = <<>>
    /\ stdout = <<>>
    /\ err = NoError
    /\ pc = "parse"
    /\ typeName = ""
    /\ declType = ""
    /\ actual = VoidValue
    /\ compatible = FALSE
    /\ second = NotRun
    /\ parser = NewParser(<<>>)

ExpressionNext == Parsing

ExpressionSpec == ExpressionInit /\ [][ExpressionNext]_vars

(***************************************************************************)
(* The parser and the evaluator on token lists with the operator tokens    *)
(* `and` and `or`, for the tokens of `print <left> <operator> <right>`     *)
(***************************************************************************)
\* operands that evaluate to true, to false and to a number, and operands
\* whose evaluation fails: an undefined variable (p on the left, q on the
\* right) and a division by zero
LogicalOperands ==
    [yes |-> <<"(", "1", "==", "1", ")">>,
     no |-> <<"(", "1", "==", "2", ")">>,
     one |-> <<"1">>,
     p |-> <<"p">>,
     q |-> <<"q">>,
     division |-> <<"(", "1", "/", "0", ")">>]

LeftOperands == {"yes", "no", "one", "p"}

RightOperands == {"yes", "no", "one", "q", "division"}

LogicalWords ==
    [l \in LeftOperands, op \in {"and", "or"}, r \in RightOperands |->
        <<"print">> \o LogicalOperands[l] \o <<op>> \o LogicalOperands[r]
        \o <<"">>]

LogicalInit ==
    /\ \E x \in DOMAIN LogicalWords : tokens = TokensOf(LogicalWords[x])
    /\ lex = NewLexer(<<>>)
    /\ ast = <<>>
    /\ environment = <<>>
    /\ stdout = <<>>
    /\ err = NoError
    /\ pc = "parse"
    /\ typeName = ""
    /\ declType = ""
    /\ actual = VoidValue
    /\ compatible = FALSE
    /\ second = NotRun
    /\ parser = NewParser(<<>>)

LogicalNext == Parsing \/ Execution

LogicalSpec == LogicalInit /\ [][LogicalNext]_vars

(***************************************************************************)
(* The type checks of TestTypeSystem: a type name is turned into a Type,   *)
(* which is then asked whether it is compatible with a value's type        *)
(***************************************************************************)
TypeNames == {"number", "text", "boolean", "void", "invalid"}

TypeInit ==
    /\ typeName \in TypeNames
    /\ \/ \E k \in 0..MaxNumber : actual = NumberValue(Rat(k, 1))
       \/ \E t \in {"", "a"} : actual = TextValue(t)
       \/ \E b \in BOOLEAN : actual = BooleanValue(b)
       \/ actual = VoidValue
    /\ declType = ""
    /\ compatible = FALSE
    /\ err = NoError
    /\ pc = "types"
    /\ lex = NewLexer(<<>>)
    /\ tokens = <<>>
    /\ ast = <<>>
    /\ environment = <<>>
    /\ stdout = <<>>
    /\ second = NotRun
    /\ parser = NewParser(<<>>)

\* declType, err := types.TypeFromString(typeName)
ParseTypeName ==
    /\ pc = "types"
    /\ LET r == TypeFromString(typeName)
       IN  /\ declType' = r.type
           /\ err' = r.err
           /\ pc' = IF r.err.kind # "nil" THEN "exit1" ELSE "check"
    /\ UNCHANGED <<lex, tokens, ast, environment, stdout, typeName, actual,
                   compatible, second, parser>>

\* compatible := declType.IsCompatibleWith(actual.Type())
CheckCompatible ==
    /\ pc = "check"
    /\ compatible' = IsCompatibleWith(declType, actual.type)
    /\ pc' = "checked"
    /\ UNCHANGED <<lex, tokens, ast, environment, stdout, err, typeName,
                   declType, actual, second, parser>>

TypeNext == ParseTypeName \/ CheckCompatible

TypeSpec == TypeInit /\ [][TypeNext]_vars

(***************************************************************************)
(* Properties                                                              *)
(***************************************************************************)
\* the driver has left the pipeline
Exited == pc \in {"exit0", "exit1"}

\* Tokenize has returned a token list
TokenizeSucceeded ==
    \/ pc \in {"parse", "run", "exit0"}
    \/ pc = "exit1" /\ err.kind # "lexical error"

\* Parse has returned a program
ParseSucceeded ==
    \/ pc \in {"run", "exit0"}
    \/ pc = "exit1" /\ err.kind = "runtime error"

\* C1: an Assignment inside a loop body to a name bound in an outer frame
\* overwrites that outer binding, so the factorial program of scenario 6
\* prints 120.
C1_AssignmentReachesOuterFrame ==
    (lex.input = Factorial /\ Exited) =>
        /\ pc = "exit0"
        /\ stdout = <<"120">>
        /\ environment[1].variables["r"].Value = Rat(120, 1)

\* C2: a function call at statement position writes the lines its body
\* prints and nothing else: the greet program prints the one line "Hi Ada".
C2_CallStatementPrintsBodyOnly ==
    (lex.input = Greet /\ Exited) =>
        /\ pc = "exit0"
        /\ stdout = <<"Hi Ada">>

\* C3: the words true and false outside a string are boolean-literal tokens
\* with a boolean payload, and "boolean flag = true" runs and binds flag to
\* the BooleanValue true.
C3_TrueFalseAreBooleanTokens ==
    /\ \A k \in DOMAIN tokens :
          (tokens[k].Type # "TokenText"
           /\ tokens[k].Value \in {"true", "false"}) =>
              /\ tokens[k].Type = "TokenBoolean"
              /\ tokens[k].Literal.dyn = "bool"
              /\ tokens[k].Literal.b = (tokens[k].Value = "true")
    /\ (lex.input = BooleanFlag /\ Exited) =>
          /\ pc = "exit0"
          /\ "flag" \in DOMAIN environment[1].variables
          /\ environment[1].variables["flag"].type = BooleanType
          /\ environment[1].variables["flag"].Value = TRUE

\* C4: the words and, or, not are logical-operator tokens, never
\* identifiers, and "a and b" / "a or b" is parsed as one BinaryExpression
\* with that operator.
C4_LogicalWordsAreOperators ==
    /\ \A k \in DOMAIN tokens :
          (tokens[k].Type # "TokenText"
           /\ tokens[k].Value \in {"and", "or", "not"}) =>
              tokens[k].Type =
                  (CASE tokens[k].Value = "and" -> "TokenAnd"
                     [] tokens[k].Value = "or" -> "TokenOr"
                     [] tokens[k].Value = "not" -> "TokenNot")
    /\ \A op \in {"and", "or"} :
          (lex.input = (IF op = "and" THEN PrintAnd ELSE PrintOr)
           /\ Exited) =>
              /\ ParseSucceeded
              /\ Len(ast) = 1
              /\ ast[1].node = "PrintStatement"
              /\ ast[1].Value.node = "BinaryExpression"
              /\ ast[1].Value.Operator = op

RECURSIVE SkipSpaces(_, _)
\* the offset of the first character at or after offset off that is not
\* whitespace
SkipSpaces(input, off) ==
    IF off < Len(input) /\ input[off + 1] \in Spaces
    THEN SkipSpaces(input, off + 1)
    ELSE off

\* how many characters of the source the token was read from
SourceLength(tok) ==
    Len(tok.Value) + (IF tok.Type = "TokenText" THEN 2 ELSE 0)

RECURSIVE TokenStart(_, _, _)
\* the offset in the source of the first character of the k-th token
TokenStart(input, toks, k) ==
    SkipSpaces(input,
               IF k = 1 THEN 0
               ELSE TokenStart(input, toks, k - 1)
                    + SourceLength(toks[k - 1]))

\* the 1-based line of the character at offset off
LineAt(input, off) == 1 + Cardinality({k \in 1..off : input[k] = "\n"})

\* the 1-based column of the character at offset off
ColumnAt(input, off) ==
    LET newlines == {k \in 1..off : input[k] = "\n"}
        last == IF newlines = {} THEN 0
                ELSE CHOOSE k \in newlines : \A m \in newlines : m <= k
    IN  off + 1 - last

\* C5: every token of the list Tokenize returns carries the 1-based line
\* and column of its first character in the source.
C5_TokenPositionIsFirstCharacter ==
    TokenizeSucceeded =>
        \A k \in DOMAIN tokens :
            tokens[k].Type # "TokenEOF" =>
                LET off == TokenStart(lex.input, tokens, k)
                IN  /\ tokens[k].Line = LineAt(lex.input, off)
                    /\ tokens[k].Column = ColumnAt(lex.input, off)

\* C6: when Tokenize succeeds on a fresh Lexer, the last token of the list
\* is end-of-input and no other token is; for an empty or whitespace-only
\* source the list is that one token.
C6_EndOfInputOnlyLast ==
    TokenizeSucceeded =>
        /\ Len(tokens) >= 1
        /\ tokens[Len(tokens)].Type = "TokenEOF"
        /\ \A k \in 1..(Len(tokens) - 1) : tokens[k].Type # "TokenEOF"
        /\ (\A k \in DOMAIN lex.input : IsSpace(lex.input[k])) =>
               Len(tokens) = 1

\* a source with two tokens before the end of the input was tokenized
C6_Witness ==
    /\ pc = "parse"
    /\ Len(tokens) = 3
    /\ tokens[1].Type = "TokenIdentifier"

\* Tokenize is about to read a token: after the whitespace, input is left
Dispatching == pc = "lex" /\ skipWhitespace(lex).position < Len(lex.input)

\* the character nextToken dispatches on
DispatchChar == currentChar(skipWhitespace(lex))

\* this step of Tokenize returns the diagnostic "unexpected character"
UnexpectedCharacter(c) ==
    /\ pc' = "exit1"
    /\ err'.kind = "lexical error"
    /\ err'.msg = "unexpected character: " \o c

\* the characters a token may start with according to the data model
SpecTokenStarts ==
    Digits \cup Letters
    \cup {"\"", "+", "-", "*", "/", "=", "<", ">", "!", "(", ")", ","}

\* the characters a token may start with in nextToken
TokenStarts == SpecTokenStarts \cup {"{", "}", ";", ":"}

\* C7 as claimed: a character at the start of a token that is not a digit,
\* a double quote, a letter or one of + - * / = < > ! ( ) , makes Tokenize
\* return "unexpected character" (so '{', '}', ';', ':' are rejected).
C7_ClosedTokenKinds ==
    [][(Dispatching /\ DispatchChar \notin SpecTokenStarts) =>
           UnexpectedCharacter(DispatchChar)]_vars

\* C7 as amended: Tokenize returns "unexpected character" exactly for a
\* character at the start of a token that is not a digit, a double quote,
\* a letter or one of + - * / = < > ! ( ) { } , ; :
C7_UnexpectedCharacterExactly ==
    [][Dispatching =>
           (DispatchChar \notin TokenStarts
            <=> UnexpectedCharacter(DispatchChar))]_vars

\* a left brace became a token and the character after it was rejected
C7_Witness ==
    /\ pc = "exit1"
    /\ err.kind = "lexical error"
    /\ err.msg = "unexpected character: @"
    /\ Len(lex.tokens) = 1
    /\ lex.tokens[1].Type = "TokenLeftBrace"

\* C8: 1.2.3 is scanned as one number token, and evaluating its Literal
\* fails with "invalid number" instead of yielding a NumberValue.
C8_SecondPointIsInvalidNumber ==
    (lex.input = PrintDotted /\ Exited) =>
        /\ Len(tokens) = 3
        /\ tokens[2].Type = "TokenNumber"
        /\ tokens[2].Value = "1.2.3"
        /\ pc = "exit1"
        /\ err.kind = "runtime error"
        /\ err.msg = "invalid number: 1.2.3"

\* C9 as claimed: declared is compatible with actual exactly when they are
\* the same variant or either of the two is Void.
C9_VoidCompatibleOnEitherSide ==
    pc = "checked" =>
        (compatible <=> (\/ declType = actual.type
                         \/ declType = VoidType
                         \/ actual.type = VoidType))

\* C9 as amended: declared is compatible with actual exactly when they are
\* the same variant or declared is Void; for Number, Text and Boolean as
\* declared type it is strict equality.
C9_VoidCompatibleAsDeclared ==
    pc = "checked" =>
        /\ compatible <=> (declType = actual.type \/ declType = VoidType)
        /\ declType \in {NumberType, TextType, BooleanType} =>
               (compatible <=> declType = actual.type)

\* a Number declaration was found not compatible with a Void value
C9_Witness ==
    /\ pc = "checked"
    /\ declType = NumberType
    /\ actual.type = VoidType
    /\ ~compatible

\* the decimal digits of the integer k
IntString(k) == IF k < 0 THEN "-" \o NatString(-k) ELSE NatString(k)

C11_BodyNamesEndWithBody ==
    \A x \in DOMAIN ScopeSource :
        (Exited /\ lex.input = ScopeSource[x]) =>
            IF x[3]
            THEN /\ pc = "exit0"
                 /\ stdout[Len(stdout)] = "9"
                 /\ environment[1].variables =
                        ("x" :> NumberValue(Rat(9, 1)))
            ELSE /\ pc = "exit1"
                 /\ err = RuntimeError("undefined variable: x")
                 /\ stdout # <<>>
                 /\ environment[1].variables = EmptyMap

\* the function body declared x = 7, made it 8 and printed it, and the
\* print after the call found the outer x = 9
C11_Witness ==
    /\ pc = "exit0"
    /\ lex.input = ScopeSource["function", "declared", TRUE]
    /\ stdout = <<"8", "void", "9">>

\* Interpret has returned
Interpreted == Exited /\ ParseSucceeded

\* C12: after Interpret returns, with success or with a diagnostic raised
\* at any nesting depth, the interpreter's current environment is the root
\* frame: every frame pushed for a loop or a call has been popped.
C12_FramesPoppedOnEveryExit == Interpreted => Len(environment) = 1

\* a division by zero in an if in a loop in a function body ended the run
C12_Witness ==
    /\ pc = "exit1"
    /\ lex.input = FailureSource["nested", "division"]
    /\ err = RuntimeError("division by zero")
    /\ stdout = <<"1", "2">>
    /\ Len(environment) = 1

\* what FailureSource[where, "none"] prints
FaultlessOutput ==
    [top |-> <<"1", "2", "3", "4">>,
     if |-> <<"1", "2", "3", "4">>,
     loop |-> <<"1", "2", "3", "2", "3", "4">>,
     function |-> <<"1", "2", "3", "void", "4">>,
     nested |-> <<"1", "2", "3", "2", "3", "void", "4">>]

\* C16: when a statement raises a diagnostic at any nesting depth (top
\* level, if body, loop iteration, function body), no statement after it
\* in program order runs and no further line is printed; the lines printed
\* before it stay, and Interpret returns that diagnostic.  Without the
\* failing statement the same program runs to its end.
C16_FirstDiagnosticAborts ==
    \A x \in DOMAIN FailureSource :
        (Exited /\ lex.input = FailureSource[x]) =>
            IF x[2] = "none"
            THEN /\ pc = "exit0"
                 /\ stdout = FaultlessOutput[x[1]]
            ELSE /\ pc = "exit1"
                 /\ stdout = <<"1", "2">>
                 /\ err = RuntimeError(FaultMessage[x[2]])

\* an undefined variable in the first iteration of a loop ended the run
\* after the lines 1 and 2
C16_Witness ==
    /\ pc = "exit1"
    /\ lex.input = FailureSource["loop", "undefined"]
    /\ err = RuntimeError("undefined variable: q")
    /\ stdout = <<"1", "2">>

LiteralText(lit) ==
    Join(IF Head(lit) = "\"" THEN SubSeq(lit, 2, Len(lit) - 1) ELSE lit)

\* C14: scanning, parsing and evaluating a literal of any of the three
\* types and displaying the value gives back the literal's source text:
\* `print <literal>` prints the literal (a text literal without its
\* quotes), e.g. `print true` prints true.
C14_DisplayOfLiteralIsItsText ==
    \A lit \in Literals :
        (Exited /\ lex.input = LiteralSource[lit]) =>
            /\ pc = "exit0"
            /\ stdout = <<LiteralText(lit)>>

\* C15: l / r with both operands Number fails with "division by zero" and
\* yields no value when r is 0, and yields the NumberValue of the quotient
\* when r is not 0.
C15_DivisionByZeroIsADiagnostic ==
    \A x \in DOMAIN DivisionSource :
        (Exited /\ lex.input = DivisionSource[x]) =>
            IF x[2] = 0
            THEN /\ pc = "exit1"
                 /\ err = RuntimeError("division by zero")
                 /\ stdout = <<>>
            ELSE /\ pc = "exit0"
                 /\ stdout = <<String(NumberValue(Rat(x[1], x[2])))>>

\* scenario 7: 1 / 0 ended the run with "division by zero"
C15_Witness ==
    /\ pc = "exit1"
    /\ lex.input = DivisionSource[1, 0]
    /\ err = RuntimeError("division by zero")
    /\ environment[1].variables["y"] = NumberValue(Rat(0, 1))

\* C17: for any two operands the line printed for != is the negation of
\* the line printed for ==; for operands of two different value variants
\* == prints false and != prints true without error, and each of <, <=, >,
\* >= fails with the diagnostic "cannot compare".
C17_MixedTypeComparisons ==
    (Exited /\ lex.input \in Comparisons) =>
        \A x \in DOMAIN ComparisonSource :
            lex.input = ComparisonSource[x] =>
                /\ Len(stdout) >= 2
                /\ {stdout[1], stdout[2]} = {"true", "false"}
                /\ OperandType[x[1]] # OperandType[x[2]] =>
                      /\ stdout = <<"false", "true">>
                      /\ pc = "exit1"
                      /\ err = RuntimeError("cannot compare "
                                            \o OperandType[x[1]] \o " and "
                                            \o OperandType[x[2]])

\* a text and a number were unequal, and comparing them with < failed
C17_Witness ==
    /\ pc = "exit1"
    /\ lex.input = ComparisonSource["hi", "one", "<"]
    /\ stdout = <<"false", "true">>
    /\ err = RuntimeError("cannot compare text and number")

\* the precedence ladder, lowest level first: the operator tokens of each
\* binary level
Ladder ==
    <<{"TokenOr"},
      {"TokenAnd"},
      {"TokenEqual", "TokenNotEqual"},
      {"TokenLessThan", "TokenLessEqual", "TokenGreaterThan",
       "TokenGreaterEqual"},
      {"TokenPlus", "TokenMinus"},
      {"TokenMultiply", "TokenDivide"}>>

\* the token list is not an expression
NotAnExpression == [node |-> "none"]

\* the tokens an operand can end with
OperandEnds ==
    {"TokenNumber", "TokenText", "TokenBoolean", "TokenIdentifier",
     "TokenRightParen"}

\* how many parentheses are open before the k-th token of ts
OpenParens(ts, k) ==
    Cardinality({m \in 1..(k - 1) : ts[m].Type = "TokenLeftParen"})
    - Cardinality({m \in 1..(k - 1) : ts[m].Type = "TokenRightParen"})

\* the positions of ts, outside all parentheses and after an operand, of a
\* token whose kind is in kinds
TopLevel(ts, kinds) ==
    {k \in 2..Len(ts) : /\ ts[k].Type \in kinds
                        /\ ts[k - 1].Type \in OperandEnds
                        /\ OpenParens(ts, k) = 0}

Largest(S) == CHOOSE k \in S : \A m \in S : m <= k

Smallest(S) == CHOOSE k \in S : \A m \in S : k <= m

\* a tree of the given parts, if they all are trees
IfExpressions(parts, tree) ==
    IF \E k \in DOMAIN parts : parts[k] = NotAnExpression
    THEN NotAnExpression
    ELSE tree

RECURSIVE LadderTree(_, _), LadderArguments(_)
\* the trees of the arguments ts of a call, separated by the commas outside
\* all parentheses
LadderArguments(ts) ==
    LET commas == TopLevel(ts, {"TokenComma"})
        first(k) == <<LadderTree(SubSeq(ts, 1, k - 1), 1)>>
                    \o LadderArguments(SubSeq(ts, k + 1, Len(ts)))
    IN  IF ts = <<>> THEN <<>>
        ELSE IF commas = {} THEN <<LadderTree(ts, 1)>>
        ELSE first(Smallest(commas))

\* the tree the ladder gives the token list ts read at the level-th level
\* or above (7: unary prefix, 8: primary): a binary level splits ts at its
\* last operator outside parentheses, into a left operand of the same
\* level and a right operand of the next
LadderTree(ts, level) ==
    LET binary(k) ==
            IfExpressions(
                <<LadderTree(SubSeq(ts, 1, k - 1), level),
                  LadderTree(SubSeq(ts, k + 1, Len(ts)), level + 1)>>,
                BinaryExpression(LadderTree(SubSeq(ts, 1, k - 1), level),
                                 ts[k].Value,
                                 LadderTree(SubSeq(ts, k + 1, Len(ts)),
                                            level + 1)))
        unary ==
            IfExpressions(<<LadderTree(Tail(ts), 7)>>,
                          UnaryExpression(ts[1].Value,
                                          LadderTree(Tail(ts), 7)))
        call ==
            IfExpressions(LadderArguments(SubSeq(ts, 3, Len(ts) - 1)),
                          FunctionCall(ts[1].Value,
                                       LadderArguments(
                                           SubSeq(ts, 3, Len(ts) - 1))))
        enclosed ==
            ts[Len(ts)].Type = "TokenRightParen"
        primary ==
            CASE Len(ts) = 1 /\ ts[1].Type = "TokenNumber" ->
                    Literal(ts[1].Literal, NumberType)
              [] Len(ts) = 1 /\ ts[1].Type = "TokenText" ->
                    Literal(ts[1].Literal, TextType)
              [] Len(ts) = 1 /\ ts[1].Type = "TokenBoolean" ->
                    Literal(ts[1].Literal, BooleanType)
              [] Len(ts) = 1 /\ ts[1].Type = "TokenIdentifier" ->
                    Identifier(ts[1].Value)
              [] Len(ts) >= 3 /\ ts[1].Type = "TokenLeftParen" /\ enclosed ->
                    LadderTree(SubSeq(ts, 2, Len(ts) - 1), 1)
              [] Len(ts) >= 3 /\ ts[1].Type = "TokenIdentifier"
                 /\ ts[2].Type = "TokenLeftParen" /\ enclosed -> call
              [] OTHER -> NotAnExpression
    IN  CASE level <= 6 ->
                IF TopLevel(ts, Ladder[level]) # {}
                THEN binary(Largest(TopLevel(ts, Ladder[level])))
                ELSE LadderTree(ts, level + 1)
          [] level = 7 ->
                IF ts # <<>> /\ ts[1].Type \in {"TokenMinus", "TokenNot"}
                THEN unary
                ELSE LadderTree(ts, 8)
          [] level = 8 -> primary

\* the tokens between `print` and the end of the input
PrintedExpression == SubSeq(tokens, 2, Len(tokens) - 1)

\* C18: for every token list that forms an expression, the tree Parse
\* builds for `print <expression>` is the tree of the precedence ladder
\* or < and < equality < comparison < additive < multiplicative < unary
\* prefix < primary, every binary level left-associative and parentheses
\* overriding precedence.
C18_TreeFollowsTheLadder ==
    (pc \in {"run", "exit1"}
     /\ LadderTree(PrintedExpression, 1) # NotAnExpression) =>
        /\ pc = "run"
        /\ ast = <<PrintStatement(LadderTree(PrintedExpression, 1))>>

\* 1 - 1 - 1 was parsed as (1 - 1) - 1
C18_Witness ==
    /\ pc = "run"
    /\ PrintedExpression = TokensOf(<<"1", "-", "1", "-", "1">>)
    /\ ast[1].Value.Operator = "-"
    /\ ast[1].Value.Left.node = "BinaryExpression"
    /\ ast[1].Value.Right.node = "Literal"

\* the Literal of the one-digit number c
NumberLiteral(c) == Literal(StringLiteral(<<c>>), NumberType)

\* the tree statement each statement of StatementForms is to become
StatementTree ==
    [declaration |-> VariableDeclaration(NumberType, "x", NumberLiteral("1")),
     assignment |-> Assignment("x", NumberLiteral("2")),
     bare |-> PrintStatement(Identifier("y")),
     if |-> IfStatement(BinaryExpression(Identifier("x"), "==",
                                         NumberLiteral("1")),
                        <<>>, <<>>),
     loop |-> LoopStatement("i", NumberLiteral("1"), NumberLiteral("2"),
                            <<>>),
     function |-> FunctionDeclaration("f", <<>>, <<>>),
     print |-> PrintStatement(Identifier("z"))]

\* the Value of the tokens no statement starts with
Unexpected == [number |-> "1", text |-> "Hi ", closing |-> ")", end |-> "end"]

\* the positions of the program whose leading token starts no statement
Stray(program) == {k \in DOMAIN program : program[k] \in DOMAIN Unexpected}

\* C19: Parse returns one tree statement per source statement, in source
\* order, of the variant its leading token selects: a type keyword a
\* VariableDeclaration, an identifier followed by = an Assignment, an
\* identifier otherwise a PrintStatement of the expression, if / loop /
\* function / print their own variant; a statement led by any other token
\* makes Parse return the parse error "unexpected token" for that token.
C19_StatementsInSourceOrder ==
    (pc \notin {"lex", "parse"} /\ lex.input \in StatementSources) =>
        \A program \in StatementPrograms :
            lex.input = StatementSource[program] =>
                IF Stray(program) = {}
                THEN /\ ParseSucceeded
                     /\ ast = [k \in DOMAIN program |->
                                  StatementTree[program[k]]]
                ELSE /\ pc = "exit1"
                     /\ err.kind = "parse error"
                     /\ err.msg = "unexpected token"
                     /\ err.got =
                            Unexpected[program[Smallest(Stray(program))]]
                     /\ ast = <<>>

\* a loop statement and then a bare identifier were parsed, in that order
C19_Witness ==
    /\ pc = "run"
    /\ lex.input = StatementSource[<<"loop", "bare">>]
    /\ Len(ast) = 2
    /\ ast[1].node = "LoopStatement"
    /\ ast[2] = PrintStatement(Identifier("y"))

\* the types f declares for its parameters, and their names
DeclaredTypes == <<NumberType, TextType>>

DeclaredNames == <<"a", "b">>

\* the first position whose argument is not of the declared type, 0 if none
FirstMismatch(args) ==
    LET wrong == {j \in DOMAIN args : args[j] # DeclaredTypes[j]}
    IN  IF wrong = {} THEN 0 ELSE Smallest(wrong)

\* the diagnostic of the call f(args), args not number, text
CallDiagnostic(args) ==
    IF Len(args) # Len(DeclaredTypes)
    THEN "function f expects " \o NatString(Len(DeclaredTypes))
         \o " arguments, got " \o NatString(Len(args))
    ELSE "type mismatch in function f: parameter "
         \o DeclaredNames[FirstMismatch(args)] \o " expects "
         \o DeclaredTypes[FirstMismatch(args)] \o ", got "
         \o args[FirstMismatch(args)]

\* the lines the calls of g among the arguments print
ArgumentOutput(args) ==
    [k \in 1..Cardinality({j \in DOMAIN args : args[j] = "void"}) |-> "7"]

\* C20: a call whose argument count differs from the parameter count, or
\* whose argument at some position is not of a type compatible with the
\* parameter's, fails with a diagnostic before any statement of the body
\* runs (the body's line 8 is not printed) and leaves the caller's
\* environment as it was (the root frame, binding x = 1 and no parameter);
\* the call with matching arguments runs the body.
C20_MismatchedCallFailsBeforeBody ==
    (Exited /\ lex.input \in CallSources) =>
        \A args \in ArgumentLists :
            lex.input = CallSource[args] =>
                IF args = DeclaredTypes
                THEN /\ pc = "exit0"
                     /\ stdout = <<"8", "void", "9">>
                ELSE /\ pc = "exit1"
                     /\ err = RuntimeError(CallDiagnostic(args))
                     /\ stdout = ArgumentOutput(args)
                     /\ Len(environment) = 1
                     /\ environment[1].variables =
                            ("x" :> NumberValue(Rat(1, 1)))
                     /\ DOMAIN environment[1].functions = {"f", "g"}

\* f(1, 1) failed on its second parameter and printed nothing
C20_Witness ==
    /\ pc = "exit1"
    /\ lex.input = CallSource[<<"number", "number">>]
    /\ err = RuntimeError("type mismatch in function f: parameter b "
                          \o "expects text, got number")
    /\ stdout = <<>>

\* the lines printed by the write and the `print x` after it
WrittenLines ==
    [declaration |-> <<"5">>, assignment |-> <<"5">>, loop |-> <<"5">>,
     parameter |-> <<"5", "void">>]

\* what the `print x` that follows the write in the same frame prints when
\* x was visible as seen before the write: the written 5 when the write
\* was made in that frame, and seen when it was made in a frame pushed
\* for it
AfterWrite(w, seen) ==
    IF w \in {"declaration", "assignment"} THEN "5" ELSE seen

\* what FrameSource[w, c] prints when no write changes an outer frame
FrameOutput(w, c) ==
    WrittenLines[w] \o
    CASE c = "top" -> <<AfterWrite(w, "1")>>
      [] c = "loop" -> <<AfterWrite(w, "1"), "1">>
      [] c = "function" -> <<AfterWrite(w, "2"), "void", "1">>
      [] c = "nested" -> <<AfterWrite(w, "2"), "2", "void", "1">>

RootWith(k) == ("v" :> NumberValue(Rat(k, 1)))

\* C22: an if statement whose condition is a Boolean runs exactly one of
\* its bodies, the then body for true and the else body (which may be
\* empty) for false, in the frame the if statement is in: the v declared
\* in the body resolves after `end`, and is bound in the root frame when
\* the if is at the top level.  A condition of another type fails with
\* "condition must be boolean" and runs neither body.
C22_IfRunsOneBodyInPlace ==
    (Exited /\ lex.input \in Ifs) =>
        \A x \in DOMAIN IfSource :
            lex.input = IfSource[x] =>
                LET root == environment[1].variables
                    atTop == x[3] = "top"
                IN  CASE x[1] = "yes" ->
                            /\ pc = "exit0"
                            /\ stdout = <<"2", "1">>
                            /\ root = IF atTop THEN RootWith(1) ELSE EmptyMap
                      [] x[1] = "no" /\ x[2] = "else" ->
                            /\ pc = "exit0"
                            /\ stdout = <<"4", "3">>
                            /\ root = IF atTop THEN RootWith(3) ELSE EmptyMap
                      [] x[1] = "no" /\ x[2] = "none" ->
                            /\ pc = "exit1"
                            /\ stdout = <<>>
                            /\ err = RuntimeError("undefined variable: v")
                            /\ root = EmptyMap
                      [] OTHER ->
                            /\ pc = "exit1"
                            /\ stdout = <<>>
                            /\ err = RuntimeError(
                                   "condition must be boolean, got "
                                   \o OperandType[x[1]])
                            /\ root = EmptyMap

\* the condition 1 == 2 was false: the else body alone ran, and the v it
\* declared was printed after the end and is left in the root frame
C22_Witness ==
    /\ pc = "exit0"
    /\ lex.input = IfSource["no", "else", "top"]
    /\ stdout = <<"4", "3">>
    /\ environment[1].variables = RootWith(3)

\* the variant of the value of a logical operand that evaluates
LogicalType == [yes |-> BooleanType, no |-> BooleanType, one |-> NumberType]

\* the value of a Boolean operand
LogicalValue == [yes |-> TRUE, no |-> FALSE]

\* the diagnostic the evaluation of an operand raises
OperandFault ==
    [p |-> "undefined variable: p", q |-> "undefined variable: q",
     division |-> "division by zero"]

\* C23: in `left and right` and `left or right` the right operand is
\* evaluated whenever the left one has evaluated, whatever its value: a
\* diagnostic raised by the right operand is the result also after a false
\* left operand of `and` and a true one of `or`, and a right operand that
\* is no Boolean fails with "cannot perform logical ..." also then.  Only
\* a left operand that fails leaves the right one unevaluated.
C23_BothOperandsEvaluated ==
    \A x \in DOMAIN LogicalWords :
        (Exited /\ tokens = TokensOf(LogicalWords[x])) =>
            LET l == x[1]
                op == x[2]
                r == x[3]
            IN  CASE l \in DOMAIN OperandFault ->
                        /\ pc = "exit1"
                        /\ err = RuntimeError(OperandFault[l])
                        /\ stdout = <<>>
                  [] l \notin DOMAIN OperandFault
                     /\ r \in DOMAIN OperandFault ->
                        /\ pc = "exit1"
                        /\ err = RuntimeError(OperandFault[r])
                        /\ stdout = <<>>
                  [] l \in DOMAIN LogicalValue /\ r \in DOMAIN LogicalValue ->
                        /\ pc = "exit0"
                        /\ stdout =
                               <<String(BooleanValue(
                                    IF op = "and"
                                    THEN LogicalValue[l] /\ LogicalValue[r]
                                    ELSE LogicalValue[l] \/ LogicalValue[r]))>>
                  [] OTHER ->
                        /\ pc = "exit1"
                        /\ err = RuntimeError(
                               "cannot perform logical "
                               \o (IF op = "and" THEN "AND" ELSE "OR")
                               \o " on " \o LogicalType[l] \o " and "
                               \o LogicalType[r])
                        /\ stdout = <<>>

\* (1 == 2) and (1 / 0): the left operand was false, and the division by
\* zero of the right operand ended the run
C23_Witness ==
    /\ pc = "exit1"
    /\ tokens = TokensOf(LogicalWords["no", "and", "division"])
    /\ err = RuntimeError("division by zero")
    /\ ast[1].Value.Operator = "and"

\* the x visible where s is called
VisibleAt == [loop |-> "5", local |-> "7", parameter |-> "8"]

\* the lines printed after the one s prints: the statement that calls
\* s, and the statement that calls the function the call is in
AfterShow ==
    [top |-> <<"void">>, loop |-> <<"void">>, local |-> <<"void", "void">>,
     parameter |-> <<"void", "void">>]

\* C24: in the body of a called function a name that is neither a
\* parameter nor declared in the body resolves to the binding visible
\* where the call is made: s, declared at the top level, prints the
\* loop variable x, the local x or the parameter x of its caller, and the
\* root x (if any) only when called at the top level.  A parameter x of
\* s shadows all of them.
C24_CalleeSeesCallSite ==
    (Exited /\ lex.input \in Dynamics) =>
        \A x \in DOMAIN DynamicSource :
            lex.input = DynamicSource[x] =>
                LET callee == x[1]
                    site == x[2]
                    outer == x[3]
                IN  CASE callee = "parameter" ->
                            /\ pc = "exit0"
                            /\ stdout = <<"2">> \o AfterShow[site]
                      [] callee = "free" /\ site # "top" ->
                            /\ pc = "exit0"
                            /\ stdout = <<VisibleAt[site]>> \o AfterShow[site]
                      [] callee = "free" /\ site = "top" /\ outer ->
                            /\ pc = "exit0"
                            /\ stdout = <<"1", "void">>
                      [] OTHER ->
                            /\ pc = "exit1"
                            /\ err = RuntimeError("undefined variable: x")
                            /\ stdout = <<>>

\* s, declared at the top level beside x = 1, was called in a loop
\* whose variable x was 5, and printed 5
C24_Witness ==
    /\ pc = "exit0"
    /\ lex.input = DynamicSource["free", "loop", TRUE]
    /\ stdout = <<"5", "void">>
    /\ environment[1].variables["x"] = NumberValue(Rat(1, 1))

\* C25: no variable of any frame is bound to a VoidValue: whatever
\* declarations, assignments, loop bindings and parameter bindings a
\* program makes, every bound variable holds a Number, a Text or a
\* Boolean.
C25_NoVariableHoldsVoid ==
    \A k \in DOMAIN environment :
        \A name \in DOMAIN environment[k].variables :
            environment[k].variables[name].type
                \in {NumberType, TextType, BooleanType}

\* C26: == is reflexive on every value an expression can evaluate to, a
\* Number, a Text, a Boolean or the Void result of a call: for an operand
\* v compared with itself, `print v == v` prints true and `print v != v`
\* prints false.
C26_EqualIsReflexive ==
    (Exited /\ lex.input \in Comparisons) =>
        \A x \in DOMAIN ComparisonSource :
            (lex.input = ComparisonSource[x] /\ x[1] = x[2]) =>
                /\ Len(stdout) >= 2
                /\ stdout[1] = "true"
                /\ stdout[2] = "false"

\* C27: a second call of Tokenize on the same Lexer returns the token list
\* the first call returned, with one end-of-input token, at its end.
C27_TokenizeIsRepeatable ==
    second.done => (second.err = NoError /\ second.tokens = tokens)

\* Tokenize has returned a diagnostic, or Parse a program or a diagnostic
Terminated == pc \in {"run", "exit1"}

\* the iteration the loop of Tokenize or of Parse is about to make returns
\* a diagnostic or leaves the cursor further on, and the cursor is within
\* the input
IterationAdvances ==
    /\ lex.position <= Len(lex.input)
    /\ parser.pos <= Len(parser.tokens)
    /\ (pc = "lex" /\ lex.position < Len(lex.input)) =>
           LET r == tokenizeIteration(lex)
           IN  r.err.kind # "nil" \/ r.l.position > lex.position
    /\ (pc = "parsing" /\ current(parser).Type # "TokenEOF") =>
           LET r == parseIteration(parser, ast)
           IN  r.err.kind # "nil" \/ r.p.pos > parser.pos

\* C28: the scanner and the parser terminate.  Every iteration of the loop
\* of Tokenize and of the loop of Parse moves the cursor forward or
\* returns a diagnostic, and on every source, also one cut off at any
\* character, and on every token list cut off at any token (inside a
\* parameter list, an argument list or a block), Tokenize returns a
\* diagnostic, or a token list on which Parse returns a program or a
\* diagnostic.
C28_ScannerAndParserTerminate == []IterationAdvances /\ <>Terminated

\* the source was cut off inside the parameter list, after a comma: Parse
\* returned a diagnostic at the end-of-input token
C28_Witness ==
    /\ pc = "exit1"
    /\ lex.input \in CutOffSources
    /\ err.kind = "parse error"
    /\ err.msg = "expected parameter type"
    /\ current(parser).Type = "TokenEOF"

====
